---- MODULE Spec2Model ----
(***************************************************************************)
(* A model of the agent-interception proxy: the interaction store with its *)
(* conversation threading (storage/store.py), and the request lifecycle of *)
(* the proxy handler with its stream interceptor (proxy/handler.py,        *)
(* proxy/streaming.py).                                                    *)
(*                                                                         *)
(* Text is a sequence of one-character strings.  Python's None is NULL for *)
(* identifiers, the empty sequence for texts and lists (the code tests     *)
(* them by truthiness only) and 0 for turn_number and status_code (values  *)
(* the code never stores).                                                 *)
(***************************************************************************)
EXTENDS Integers, Sequences, FiniteSets, TLC

VARIABLES
    rows,        \* the interactions table: a set of row records keyed by id
    committed,   \* ids of the rows covered by a commit on the shared connection
    tasks,       \* the concurrent save() calls: task -> [pc, given, ia], where
                 \* given is the interaction as passed and ia the one save() mutates
    pc,          \* where the request being handled stands
    req,         \* the request as received: provider, body
    interaction, \* the Interaction that handle() builds
    up,          \* the upstream's answer: status, content type, body or blocks
    ic,          \* the StreamInterceptor: buffer, chunks, chunk_index, first_chunk_time
    cur,         \* the block held at the interceptor's yield
    yielded,     \* the concatenation of the blocks intercept() has yielded
    client,      \* what the downstream client has received: status, body, complete
    hist,        \* history of the request: route taken, exception in flight, counts
    front,       \* a request on its way from the router to the upstream request:
                 \* method, path, headers, body, endpoint, provider, forwarded body
    calc         \* one call of a function of the program taken on its own:
                 \* its arguments, the objects it works on, where it stands

svars == <<rows, committed, tasks>>

hvars == <<pc, req, interaction, up, ic, cur, yielded, client, hist>>

vars == <<rows, committed, tasks, pc, req, interaction, up, ic, cur, yielded, client, hist, front, calc>>

NULL == "null"

\* No request is at the router.
NoRequest == [pc |-> "idle"]

\* No function call is being followed.
NoCalc == [pc |-> "none"]

(***************************************************************************)
(* Bounds.                                                                 *)
(***************************************************************************)
NSaves == 2

Tasks == 1..NSaves

(***************************************************************************)
(* Program constants.                                                      *)
(***************************************************************************)
CheckTextLen == 100
GlobalScanLimit == 10
SessionLookupLimit == 1

(***************************************************************************)
(* Sequence helpers.                                                       *)
(***************************************************************************)
Take(s, n) == SubSeq(s, 1, IF n < Len(s) THEN n ELSE Len(s))

\* Python's `sub in text` on strings.
Contains(text, sub) ==
    \E i \in 0..(Len(text) - Len(sub)) : SubSeq(text, i + 1, i + Len(sub)) = sub

\* The rows of S as the sequence ordered by Before (a strict total order on S).
\* Its k-th element is the row that k - 1 rows come before.
SortBy(S, Before(_, _)) ==
    [k \in 1..Cardinality(S) |-> CHOOSE r \in S : Cardinality({q \in S : Before(q, r)}) = k - 1]

(***************************************************************************)
(* Messages of a request, as the threading code reads them: a role and a   *)
(* content that is a string or a list of typed blocks.                     *)
(***************************************************************************)
\* A response text one character longer than what the continuation check
\* reads of it, and the part the check reads.
TextHi == [k \in 1..101 |-> IF k <= 100 THEN "h" ELSE "i"]
TextHiHead == [k \in 1..100 |-> "h"]
TextQ == <<"q">>

StrMsg(role, text) == [role |-> role, ctype |-> "str", text |-> text, blocks |-> <<>>]
BlockMsg(role, blocks) == [role |-> role, ctype |-> "list", text |-> <<>>, blocks |-> blocks]

MsgUser == <<StrMsg("user", TextQ)>>
MsgEcho == <<StrMsg("user", TextQ), StrMsg("assistant", TextHiHead), StrMsg("user", TextQ)>>
MsgEchoBlocks ==
    <<StrMsg("user", TextQ),
      BlockMsg("assistant", <<[type |-> "text", text |-> [k \in 1..60 |-> "h"]],
                              [type |-> "text", text |-> [k \in 1..40 |-> "h"]]>>)>>
MsgToolRole == <<StrMsg("user", TextQ), StrMsg("tool", <<"r">>)>>
MsgToolBlock ==
    <<StrMsg("user", TextQ), BlockMsg("user", <<[type |-> "tool_result", text |-> <<"r">>]>>)>>

\* What one request carries into save(): its messages and what the upstream
\* answered (response text, tool calls).
Shapes ==
    { [messages |-> MsgUser,       response_text |-> TextHi, tool_calls |-> <<>>],
      [messages |-> MsgEcho,       response_text |-> TextHi, tool_calls |-> <<>>],
      [messages |-> MsgEchoBlocks, response_text |-> <<>>,   tool_calls |-> <<"call">>],
      [messages |-> MsgToolRole,   response_text |-> TextHi, tool_calls |-> <<>>],
      [messages |-> MsgToolBlock,  response_text |-> <<>>,   tool_calls |-> <<>>] }

SessionIds == {NULL, "s1"}
ExplicitConvIds == {NULL, "c1"}

\* uuid.uuid4() minted while saving interaction `id`: a token no other mint returns.
UuidNames ==
    <<"u1", "u2", "u3", "u4", "u5", "u6", "u7", "u8", "u9", "u10", "u11", "u12", "u13",
      "u14", "u15", "u16">>
Uuid4(id) == UuidNames[id]

\* Interaction(...) as handle() constructs it: id and timestamp are given at
\* receipt (ids are fresh uuids, timestamps follow the order of receipt).
Interaction(id, sid, conv, messages) ==
    [ id |-> id, timestamp |-> id, session_id |-> sid, messages |-> messages,
      status_code |-> 0, is_streaming |-> FALSE, stream_chunks |-> <<>>,
      raw_response_body |-> NULL, response_body |-> NULL,
      response_text |-> <<>>, tool_calls |-> <<>>,
      time_to_first_token_ms |-> NULL, total_latency_ms |-> NULL, error |-> NULL,
      conversation_id |-> conv, parent_interaction_id |-> 0,
      turn_number |-> 0, turn_type |-> NULL, new_messages_this_turn |-> {} ]

\* The interaction of a completed request, as it reaches save().
NewInteraction(id, sid, conv, shape) ==
    [Interaction(id, sid, conv, shape.messages) EXCEPT
        !.status_code = 200, !.total_latency_ms = "measured",
        !.response_text = shape.response_text, !.tool_calls = shape.tool_calls]

(***************************************************************************)
(* Queries of the store.                                                   *)
(***************************************************************************)
NewestFirst(a, b) == a.timestamp > b.timestamp

TurnOrder(a, b) ==
    \/ a.turn_number < b.turn_number
    \/ a.turn_number = b.turn_number /\ a.timestamp < b.timestamp

get_conversation(table, conversation_id) ==
    SortBy({r \in table : r.conversation_id = conversation_id}, TurnOrder)

get_recent_in_session(table, session_id, limit) ==
    Take(SortBy({r \in table : r.session_id = session_id}, NewestFirst), limit)

list_interactions(table, limit) == Take(SortBy(table, NewestFirst), limit)

(***************************************************************************)
(* The threading engine.                                                   *)
(***************************************************************************)
RECURSIVE BlocksText(_)
BlocksText(blocks) ==
    IF blocks = <<>> THEN <<>>
    ELSE (IF Head(blocks).type = "text" THEN Head(blocks).text ELSE <<>>)
         \o BlocksText(Tail(blocks))

AssistantText(msg) == IF msg.ctype = "str" THEN msg.text ELSE BlocksText(msg.blocks)

has_tool_results(ia) ==
    \E k \in 1..Len(ia.messages) :
        \/ ia.messages[k].role \in {"tool", "tool_result"}
        \/ /\ ia.messages[k].ctype = "list"
           /\ \E b \in 1..Len(ia.messages[k].blocks) :
                  ia.messages[k].blocks[b].type = "tool_result"

\* A variant that looks for the whole previous response text.
is_continuation_whole(ia, prev) ==
    /\ ia.messages # <<>>
    /\ \/ /\ prev.response_text # <<>>
          /\ \E k \in 1..Len(ia.messages) :
                 /\ ia.messages[k].role = "assistant"
                 /\ Contains(AssistantText(ia.messages[k]), prev.response_text)
       \/ prev.tool_calls # <<>> /\ has_tool_results(ia)

is_continuation(ia, prev) ==
    /\ ia.messages # <<>>
    /\ \/ /\ prev.response_text # <<>>
          /\ \E k \in 1..Len(ia.messages) :
                 /\ ia.messages[k].role = "assistant"
                 /\ Contains(AssistantText(ia.messages[k]),
                             Take(prev.response_text, CheckTextLen))
       \/ prev.tool_calls # <<>> /\ has_tool_results(ia)

ToolOrContinuation(ia, prev) ==
    IF prev.tool_calls # <<>> /\ has_tool_results(ia) THEN "tool_result" ELSE "continuation"

\* prev.turn_number or 1
TurnOr1(prev) == IF prev.turn_number = 0 THEN 1 ELSE prev.turn_number

update_new_messages_delta(ia, prev) ==
    IF ia.new_messages_this_turn = {}
    THEN {Len(ia.messages) - Len(prev.messages)}
    ELSE ia.new_messages_this_turn

Initial(ia, conv) ==
    [ia EXCEPT !.conversation_id = conv, !.turn_number = 1, !.turn_type = "initial"]

\* A variant that gives a linked turn the number of the turn it is linked to.
LinkToSameTurn(ia, prev, conv, type) ==
    [ia EXCEPT !.conversation_id = conv,
               !.parent_interaction_id = prev.id,
               !.turn_number = TurnOr1(prev),
               !.turn_type = type,
               !.new_messages_this_turn = update_new_messages_delta(ia, prev)]

LinkTo(ia, prev, conv, type) ==
    [ia EXCEPT !.conversation_id = conv,
               !.parent_interaction_id = prev.id,
               !.turn_number = TurnOr1(prev) + 1,
               !.turn_type = type,
               !.new_messages_this_turn = update_new_messages_delta(ia, prev)]

\* A variant that never inherits: every linked turn opens a conversation of its own.
InheritedConvFresh(ia, prev) == Uuid4(ia.id)

\* prev.conversation_id or str(uuid.uuid4())
InheritedConv(ia, prev) ==
    IF prev.conversation_id = NULL THEN Uuid4(ia.id) ELSE prev.conversation_id

\* A variant that never classifies a turn as a handoff.
ExplicitRuleSameSession(table, ia) ==
    LET existing == get_conversation(table, ia.conversation_id) IN
    IF existing # <<>>
    THEN LET prev == existing[Len(existing)] IN
         LinkTo(ia, prev, ia.conversation_id, ToolOrContinuation(ia, prev))
    ELSE Initial(ia, ia.conversation_id)

ExplicitRule(table, ia) ==
    LET existing == get_conversation(table, ia.conversation_id) IN
    IF existing # <<>>
    THEN LET prev == existing[Len(existing)] IN
         LinkTo(ia, prev, ia.conversation_id,
                IF prev.session_id # ia.session_id THEN "handoff"
                ELSE ToolOrContinuation(ia, prev))
    ELSE Initial(ia, ia.conversation_id)

SessionRule(table, ia) ==
    LET recent == get_recent_in_session(table, ia.session_id, SessionLookupLimit) IN
    IF recent # <<>> /\ is_continuation(ia, recent[1])
    THEN LinkTo(ia, recent[1], InheritedConv(ia, recent[1]), ToolOrContinuation(ia, recent[1]))
    ELSE Initial(ia, Uuid4(ia.id))

\* A variant that scans every stored interaction.
GlobalRuleUnlimited(table, ia) ==
    LET recent == list_interactions(table, Cardinality(table))
        hits == {k \in 1..Len(recent) : is_continuation(ia, recent[k])}
    IN  IF hits # {}
        THEN LET prev == recent[CHOOSE k \in hits : \A j \in hits : k <= j] IN
             LinkTo(ia, prev, InheritedConv(ia, prev), ToolOrContinuation(ia, prev))
        ELSE Initial(ia, Uuid4(ia.id))

GlobalRule(table, ia) ==
    LET recent == list_interactions(table, GlobalScanLimit)
        hits == {k \in 1..Len(recent) : is_continuation(ia, recent[k])}
    IN  IF hits # {}
        THEN LET prev == recent[CHOOSE k \in hits : \A j \in hits : k <= j] IN
             LinkTo(ia, prev, InheritedConv(ia, prev), ToolOrContinuation(ia, prev))
        ELSE Initial(ia, Uuid4(ia.id))

resolve_threading(table, ia) ==
    IF ia.conversation_id # NULL THEN ExplicitRule(table, ia)
    ELSE IF ia.session_id # NULL THEN SessionRule(table, ia)
    ELSE GlobalRule(table, ia)

\* INSERT OR REPLACE by primary key.
Upsert(table, ia) == {r \in table : r.id # ia.id} \cup {ia}

(***************************************************************************)
(* Concurrent save() calls on the one shared connection.  A save suspends  *)
(* at its threading query, at its INSERT and at its commit; rows written   *)
(* on the connection are visible to every later query on it.               *)
(***************************************************************************)
NoInteraction == Interaction(0, NULL, NULL, <<>>)

HandlerIdle ==
    /\ pc = "idle"
    /\ req = [provider |-> NULL, body |-> <<>>]
    /\ interaction = NoInteraction
    /\ up = [status |-> 0, content_type |-> NULL, body |-> <<>>, blocks |-> <<>>, pos |-> 0,
             eof |-> FALSE]
    /\ ic = [buffer |-> <<>>, chunks |-> <<>>, chunk_index |-> 0, first_chunk_time |-> NULL,
             raised |-> FALSE]
    /\ cur = <<>>
    /\ yielded = <<>>
    /\ client = [status |-> 0, body |-> <<>>, complete |-> FALSE]
    /\ hist = [route |-> "none", exc |-> "none", fault |-> "none", fault_at |-> "none",
               disconnected |-> FALSE, saved |-> 0, save_failed |-> FALSE,
               listener |-> "unknown", notified |-> 0, listener_raised |-> FALSE]

StoreInit ==
    /\ rows = {}
    /\ committed = {}
    /\ tasks = [t \in Tasks |-> [pc |-> "idle", given |-> NoInteraction, ia |-> NoInteraction]]
    /\ HandlerIdle
    /\ front = NoRequest
    /\ calc = NoCalc

\* handler._finalize calls store.save(interaction): requests arrive in the
\* order of their timestamps.
SaveCalled(t) ==
    /\ tasks[t].pc = "idle"
    /\ \A u \in Tasks : u < t => tasks[u].pc # "idle"
    /\ \E sid \in SessionIds, conv \in ExplicitConvIds, shape \in Shapes :
           tasks' = [tasks EXCEPT ![t] = [pc |-> "resolve",
                                          given |-> NewInteraction(t, sid, conv, shape),
                                          ia |-> NewInteraction(t, sid, conv, shape)]]
    /\ UNCHANGED <<rows, committed, hvars, front, calc>>

SaveResolve(t) ==
    /\ tasks[t].pc = "resolve"
    /\ tasks' = [tasks EXCEPT ![t].pc = "insert", ![t].ia = resolve_threading(rows, tasks[t].ia)]
    /\ UNCHANGED <<rows, committed, hvars, front, calc>>

SaveInsert(t) ==
    /\ tasks[t].pc = "insert"
    /\ rows' = Upsert(rows, tasks[t].ia)
    /\ tasks' = [tasks EXCEPT ![t].pc = "commit"]
    /\ UNCHANGED <<committed, hvars, front, calc>>

SaveCommit(t) ==
    /\ tasks[t].pc = "commit"
    /\ committed' = {r.id : r \in rows}
    /\ tasks' = [tasks EXCEPT ![t].pc = "done"]
    /\ UNCHANGED <<rows, hvars, front, calc>>

StoreNext ==
    \E t \in Tasks : SaveCalled(t) \/ SaveResolve(t) \/ SaveInsert(t) \/ SaveCommit(t)

SpecStore == StoreInit /\ [][StoreNext]_vars

(***************************************************************************)
(* Claims about the store.                                                 *)
(***************************************************************************)

Threading(r) ==
    [id |-> r.id, conversation_id |-> r.conversation_id,
     parent_interaction_id |-> r.parent_interaction_id, turn_number |-> r.turn_number]

Orders(S) ==
    {q \in [1..Cardinality(S) -> S] : \A j, k \in 1..Cardinality(S) : q[j] = q[k] => j = k}

\* The table after the saves of `order` ran one after the other, each from its
\* threading query to its insert without another save in between.
RECURSIVE SerialRows(_, _)
SerialRows(table, order) ==
    IF order = <<>> THEN table
    ELSE SerialRows(Upsert(table, resolve_threading(table, tasks[Head(order)].given)),
                    Tail(order))

Inserted == {t \in Tasks : tasks[t].pc \in {"commit", "done"}}

\* C4: whatever the interleaving of concurrent saves, the stored conversation_id,
\* parent_interaction_id and turn_number of every interaction are those of some
\* serial order of the same saves.
SaveSerializable ==
    \E order \in Orders(Inserted) :
        {Threading(r) : r \in rows} = {Threading(r) : r \in SerialRows({}, order)}


(***************************************************************************)
(* JSON documents.  The bodies and stream lines of the model are written   *)
(* in a four-document language that keeps the cases the code tells apart:  *)
(*   {}   an object without members (falsy in Python)                      *)
(*   {t}  an object that carries the text "t" where the provider puts text *)
(*   {n}  an object with null where the provider puts a container          *)
(*        (delta.tool_calls, usage, message, content)                      *)
(*   7    a JSON value that is not an object                               *)
(* Every other text fails to decode.                                       *)
(***************************************************************************)
JsonValue(kind, truthy, text, null_member, raw) ==
    [kind |-> kind, truthy |-> truthy, text |-> text, null_member |-> null_member, raw |-> raw]

json_loads(s) ==
    IF s = <<"{", "}">> THEN JsonValue("dict", FALSE, <<>>, FALSE, <<>>)
    ELSE IF s = <<"{", "t", "}">> THEN JsonValue("dict", TRUE, <<"t">>, FALSE, <<>>)
    ELSE IF s = <<"{", "n", "}">> THEN JsonValue("dict", TRUE, <<>>, TRUE, <<>>)
    ELSE IF s = <<"7">> THEN JsonValue("scalar", TRUE, <<>>, FALSE, <<>>)
    ELSE JsonValue("fail", FALSE, <<>>, FALSE, <<>>)

Providers == {"openai", "anthropic", "ollama"}

\* Where a null member makes the provider's code raise (TypeError or
\* AttributeError): iterating delta.tool_calls, reading usage, message.get.
TripsOnNull == {"openai", "anthropic"}

(***************************************************************************)
(* The stream interceptor.                                                 *)
(***************************************************************************)
Whitespace == {" ", "\r", "\t"}

RECURSIVE LStrip(_)
LStrip(s) == IF s # <<>> /\ Head(s) \in Whitespace THEN LStrip(Tail(s)) ELSE s

RECURSIVE RStrip(_)
RStrip(s) ==
    IF s # <<>> /\ s[Len(s)] \in Whitespace THEN RStrip(SubSeq(s, 1, Len(s) - 1)) ELSE s

Strip(s) == RStrip(LStrip(s))

DataPrefix == <<"d", "a", "t", "a", ":">>
DoneMark == <<"[", "D", "O", "N", "E", "]">>

StartsWith(s, prefix) == Len(s) >= Len(prefix) /\ SubSeq(s, 1, Len(prefix)) = prefix

HasNewline(s) == \E i \in 1..Len(s) : s[i] = "\n"

FirstNewline(s) == CHOOSE i \in 1..Len(s) : s[i] = "\n" /\ \A j \in 1..(i - 1) : s[j] # "\n"

\* parse_stream_chunk: the result dict, or raised when the call raises.
ParseResult(raised, parsed, delta_text) ==
    [raised |-> raised, parsed |-> parsed, delta_text |-> delta_text]

parse_stream_chunk(provider, data) ==
    IF provider = "openai" /\ Strip(data) = DoneMark
    THEN ParseResult(FALSE, JsonValue("done", TRUE, <<>>, FALSE, <<>>), <<>>)
    ELSE LET v == json_loads(data) IN
         IF v.kind = "fail"
         THEN ParseResult(FALSE, JsonValue("raw", TRUE, <<>>, FALSE, data), <<>>)
         ELSE IF v.kind # "dict"
         THEN ParseResult(TRUE, v, <<>>)
         ELSE ParseResult(FALSE, v, v.text)

\* A variant that numbers a chunk and leaves the counter where it was.
AppendChunkSameIndex(st, line, result) ==
    IF result.raised THEN [st EXCEPT !.raised = TRUE]
    ELSE [st EXCEPT
            !.chunks = Append(st.chunks,
                              [index |-> st.chunk_index, data |-> line,
                               parsed |-> result.parsed, delta_text |-> result.delta_text])]

AppendChunk(st, line, result) ==
    IF result.raised THEN [st EXCEPT !.raised = TRUE]
    ELSE [st EXCEPT
            !.chunks = Append(st.chunks,
                              [index |-> st.chunk_index, data |-> line,
                               parsed |-> result.parsed, delta_text |-> result.delta_text]),
            !.chunk_index = st.chunk_index + 1]

parse_sse_line(provider, st, line) ==
    IF ~StartsWith(line, DataPrefix) THEN st
    ELSE LET data == Strip(SubSeq(line, Len(DataPrefix) + 1, Len(line))) IN
         IF data = <<>> THEN st
         ELSE AppendChunk(st, line, parse_stream_chunk(provider, data))

parse_ndjson_line(provider, st, line) ==
    AppendChunk(st, line, parse_stream_chunk(provider, line))

\* The `while "\n" in self._buffer` loop; st.raised tells that a parse raised
\* and left the loop (and the generator) there.
RECURSIVE ProcessLines(_, _)
ProcessLines(provider, st) ==
    IF st.raised \/ ~HasNewline(st.buffer) THEN st
    ELSE LET i == FirstNewline(st.buffer)
             line == Strip(SubSeq(st.buffer, 1, i - 1))
             rest == [st EXCEPT !.buffer = SubSeq(st.buffer, i + 1, Len(st.buffer))]
         IN  IF line = <<>> THEN ProcessLines(provider, rest)
             ELSE IF provider = "ollama"
             THEN ProcessLines(provider, parse_ndjson_line(provider, rest, line))
             ELSE ProcessLines(provider, parse_sse_line(provider, rest, line))

\* intercept() from its resumption after the yield to the next read.
ParseBlock(provider, st, block) ==
    ProcessLines(provider, [st EXCEPT !.buffer = st.buffer \o block])

NewInterceptor ==
    [buffer |-> <<>>, chunks |-> <<>>, chunk_index |-> 0, first_chunk_time |-> NULL,
     raised |-> FALSE]

RECURSIVE JoinDeltas(_)
JoinDeltas(chunks) ==
    IF chunks = <<>> THEN <<>> ELSE Head(chunks).delta_text \o JoinDeltas(Tail(chunks))

\* reconstruct_response: the response text, or raised.
reconstruct_response(provider, chunks) ==
    [raised |-> provider \in TripsOnNull
                /\ \E k \in 1..Len(chunks) : chunks[k].parsed.null_member,
     response_text |-> JoinDeltas(chunks)]

\* parse_request on the decoded body of the request: iterating a null
\* messages member raises.
parse_request(provider, v) ==
    [raised |-> provider \in TripsOnNull /\ v.null_member]

\* parse_response on the decoded body of a non-streaming response.
parse_response(provider, v) ==
    [raised |-> v.kind # "dict" \/ (provider \in TripsOnNull /\ v.null_member),
     response_text |-> v.text]


(***************************************************************************)
(* One request through ProxyHandler.handle.                                *)
(***************************************************************************)
MaxBlocks == 2

RequestBodies == {<<>>, <<"x">>, <<"{", "t", "}">>, <<"{", "n", "}">>, <<"7">>}
ResponseBodies == {<<"x">>, <<"{", "t", "}">>, <<"{", "n", "}">>, <<"7">>}
Statuses == {200, 500}
ContentTypes == {"text/event-stream", "application/x-ndjson", "application/json"}

\* The byte blocks an upstream stream is cut into.
Line(doc) == DataPrefix \o <<" ">> \o doc \o <<"\n">>

BlockMenu ==
    { Line(<<"{", "t", "}">>), Line(<<"7">>), Line(<<"x">>), Line(<<"{", "n", "}">>),
      DataPrefix \o <<" ", "{", "t">>, <<"}", "\n">>,
      <<"{", "t", "}", "\n">>, <<"7", "\n">> }

BlockSeqs == UNION {[1..n -> BlockMenu] : n \in 0..MaxBlocks}

RECURSIVE Flatten(_)
Flatten(blocks) == IF blocks = <<>> THEN <<>> ELSE Head(blocks) \o Flatten(Tail(blocks))

\* The 500 the server answers when handle() is left by an exception.
ServerError == [status |-> 500, body |-> <<"I", "S", "E">>, complete |-> TRUE]

\* json.dumps({"error": str(e)})
ErrorJson == <<"{", "e", "}">>

is_streaming(provider, content_type, body_dict) ==
    \/ content_type = "text/event-stream"
    \/ content_type = "application/x-ndjson"
    \/ provider = "ollama" /\ content_type = "application/json" /\ body_dict.truthy

Crash(exc) ==
    /\ pc' = "done"
    /\ client' = ServerError
    /\ hist' = [hist EXCEPT !.exc = exc]

\* handle() up to the upstream request: read the body, decode it, build the
\* interaction, run the provider's request parser.
Receive ==
    /\ pc = "idle"
    /\ \E provider \in Providers, body \in RequestBodies :
        LET body_dict == json_loads(body) IN
        /\ req' = [provider |-> provider, body |-> body]
        /\ IF body_dict.kind = "scalar"
           THEN \* Interaction(request_body=...) rejects what is not a dict
                /\ Crash("validation")
                /\ UNCHANGED interaction
           ELSE IF body_dict.truthy /\ parse_request(provider, body_dict).raised
           THEN /\ Crash("parser")
                /\ UNCHANGED interaction
           ELSE /\ pc' = "send"
                /\ interaction' =
                       Interaction(1, NULL, NULL, IF body_dict.truthy THEN MsgUser ELSE <<>>)
                /\ UNCHANGED <<client, hist>>
    /\ UNCHANGED <<svars, front, calc, up, ic, cur, yielded>>

\* A variant of the except branch that records the error and no latency.
ConnectFailedUntimed(i) == [i EXCEPT !.error = "Connection error"]

\* interaction.error = f"Connection error: {e}"; interaction.total_latency_ms = ...
ConnectFailed(i) ==
    [i EXCEPT !.error = "Connection error", !.total_latency_ms = "measured"]

TimedOut(i) == [i EXCEPT !.error = "Timeout", !.total_latency_ms = "measured"]

\* except httpx.ConnectError
SendConnectError ==
    /\ pc = "send"
    /\ interaction' = ConnectFailed(interaction)
    /\ hist' = [hist EXCEPT !.route = "502", !.fault = "ConnectError", !.fault_at = "send"]
    /\ pc' = "finalize"
    /\ UNCHANGED <<svars, front, calc, req, up, ic, cur, yielded, client>>

\* except httpx.TimeoutException, raised by send()
SendTimeout ==
    /\ pc = "send"
    /\ interaction' = TimedOut(interaction)
    /\ hist' = [hist EXCEPT !.route = "504", !.fault = "Timeout", !.fault_at = "send"]
    /\ pc' = "finalize"
    /\ UNCHANGED <<svars, front, calc, req, up, ic, cur, yielded, client>>

\* Any other transport error of send() (ReadError, RemoteProtocolError, ...)
\* matches no except clause.
SendTransportError ==
    /\ pc = "send"
    /\ pc' = "done"
    /\ client' = ServerError
    /\ hist' = [hist EXCEPT !.exc = "transport", !.fault = "TransportError",
                            !.fault_at = "send"]
    /\ UNCHANGED <<svars, front, calc, req, interaction, up, ic, cur, yielded>>

\* The upstream answers: status and headers are in, the body is still to read.
SendResponse ==
    /\ pc = "send"
    /\ \E status \in Statuses, content_type \in ContentTypes :
        IF is_streaming(req.provider, content_type, json_loads(req.body))
        THEN \E blocks \in BlockSeqs :
                /\ up' = [up EXCEPT !.status = status, !.content_type = content_type,
                                    !.blocks = blocks]
                /\ interaction' = [interaction EXCEPT !.status_code = status,
                                                      !.is_streaming = TRUE]
                /\ client' = [client EXCEPT !.status = status]
                /\ hist' = [hist EXCEPT !.route = "stream"]
                /\ pc' = "stream_read"
        ELSE /\ up' = [up EXCEPT !.status = status, !.content_type = content_type]
             /\ interaction' = [interaction EXCEPT !.status_code = status]
             /\ hist' = [hist EXCEPT !.route = "nonstream"]
             /\ pc' = "aread"
             /\ UNCHANGED client
    /\ UNCHANGED <<svars, front, calc, req, ic, cur, yielded>>

\* _handle_non_streaming: the body is read and parsed.
ReadBody ==
    /\ pc = "aread"
    /\ \E body \in ResponseBodies :
        LET v == json_loads(body)
            parsed == parse_response(req.provider, v)
        IN  /\ up' = [up EXCEPT !.body = body, !.eof = TRUE]
            /\ IF v.kind # "fail" /\ parsed.raised
               THEN /\ interaction' = [interaction EXCEPT !.total_latency_ms = "measured",
                                                          !.raw_response_body = body,
                                                          !.response_body = v.kind]
                    /\ Crash("parser")
               ELSE /\ interaction' =
                          [interaction EXCEPT
                              !.total_latency_ms = "measured",
                              !.raw_response_body = body,
                              !.response_body = IF v.kind = "fail" THEN NULL ELSE v.kind,
                              !.response_text = IF v.kind = "fail" THEN <<>>
                                                ELSE parsed.response_text]
                    /\ pc' = "finalize"
                    /\ UNCHANGED <<client, hist>>
    /\ UNCHANGED <<svars, front, calc, req, ic, cur, yielded>>

\* aread() times out: caught by handle()'s except httpx.TimeoutException.
ReadBodyTimeout ==
    /\ pc = "aread"
    /\ interaction' = TimedOut(interaction)
    /\ hist' = [hist EXCEPT !.route = "504", !.fault = "Timeout", !.fault_at = "aread"]
    /\ pc' = "finalize"
    /\ UNCHANGED <<svars, front, calc, req, up, ic, cur, yielded, client>>

\* aread() fails with another transport error: no except clause matches.
ReadBodyError ==
    /\ pc = "aread"
    /\ pc' = "done"
    /\ client' = ServerError
    /\ hist' = [hist EXCEPT !.exc = "transport", !.fault = "TransportError",
                            !.fault_at = "aread"]
    /\ UNCHANGED <<svars, front, calc, req, interaction, up, ic, cur, yielded>>


\* stream_body() awaits the next block of aiter_bytes(); intercept() notes the
\* first chunk time and yields the block, which stream_body() yields on.
StreamBlock ==
    /\ pc = "stream_read"
    /\ up.pos < Len(up.blocks)
    /\ up' = [up EXCEPT !.pos = up.pos + 1]
    /\ cur' = up.blocks[up.pos + 1]
    /\ ic' = [ic EXCEPT !.first_chunk_time =
                  IF ic.first_chunk_time = NULL THEN "noted" ELSE ic.first_chunk_time]
    /\ yielded' = yielded \o up.blocks[up.pos + 1]
    /\ pc' = "stream_yield"
    /\ UNCHANGED <<svars, front, calc, req, interaction, client, hist>>

\* The upstream ends the body: both generators run off their loops.
StreamEnd ==
    /\ pc = "stream_read"
    /\ up.pos = Len(up.blocks)
    /\ up' = [up EXCEPT !.eof = TRUE]
    /\ pc' = "stream_finally"
    /\ UNCHANGED <<svars, front, calc, req, interaction, ic, cur, yielded, client, hist>>

\* The upstream connection fails or times out between two blocks: the exception
\* passes through intercept() into stream_body().
StreamFails ==
    /\ pc = "stream_read"
    /\ \E fault \in {"Timeout", "TransportError"} :
           hist' = [hist EXCEPT !.exc = "upstream", !.fault = fault, !.fault_at = "stream"]
    /\ pc' = "stream_finally"
    /\ UNCHANGED <<svars, front, calc, req, interaction, up, ic, cur, yielded, client>>

\* The block is written to the client and intercept() resumes after its yield:
\* it decodes the block, extends the buffer and parses the complete lines.
StreamResume ==
    /\ pc = "stream_yield"
    /\ client' = [client EXCEPT !.body = client.body \o cur]
    /\ ic' = ParseBlock(req.provider, ic, cur)
    /\ IF ParseBlock(req.provider, ic, cur).raised
       THEN /\ hist' = [hist EXCEPT !.exc = "parser"]
            /\ pc' = "stream_finally"
       ELSE /\ pc' = "stream_read"
            /\ UNCHANGED hist
    /\ UNCHANGED <<svars, front, calc, req, interaction, up, cur, yielded>>

\* The client has gone: the write fails and stream_body() is closed at its
\* yield; intercept() stays suspended at its own yield, before the parse of
\* the block it yielded.
StreamDisconnect ==
    /\ pc = "stream_yield"
    /\ hist' = [hist EXCEPT !.exc = "disconnect", !.disconnected = TRUE]
    /\ pc' = "stream_finally"
    /\ UNCHANGED <<svars, front, calc, req, interaction, up, ic, cur, yielded, client>>

\* The finally block of stream_body() up to _finalize.
StreamFinally ==
    /\ pc = "stream_finally"
    /\ LET r == reconstruct_response(req.provider, ic.chunks)
           timed == [interaction EXCEPT
                        !.total_latency_ms = "measured",
                        !.time_to_first_token_ms =
                            IF ic.first_chunk_time # NULL THEN "measured" ELSE NULL,
                        !.stream_chunks = ic.chunks]
       IN  IF ic.chunks # <<>> /\ r.raised
           THEN /\ interaction' = timed
                /\ hist' = [hist EXCEPT !.exc = "reassembly"]
                /\ pc' = "done"
           ELSE /\ interaction' =
                       IF ic.chunks # <<>>
                       THEN [timed EXCEPT !.response_text = r.response_text]
                       ELSE timed
                /\ pc' = "finalize"
                /\ UNCHANGED hist
    /\ UNCHANGED <<svars, front, calc, req, up, ic, cur, yielded, client>>

\* _finalize: await self._store.save(interaction) returns.
Save ==
    /\ pc = "finalize"
    /\ interaction' = resolve_threading(rows, interaction)
    /\ rows' = Upsert(rows, resolve_threading(rows, interaction))
    /\ committed' = {r.id : r \in Upsert(rows, resolve_threading(rows, interaction))}
    /\ hist' = [hist EXCEPT !.saved = hist.saved + 1]
    /\ pc' = "notify"
    /\ UNCHANGED <<tasks, front, calc, req, up, ic, cur, yielded, client>>

\* _finalize: store.save raises (the database is locked, the disk is full).
\* Nothing catches it: handle() is left by it, or the body iterator is.
SaveFails ==
    /\ pc = "finalize"
    /\ hist' = [hist EXCEPT !.save_failed = TRUE, !.exc = "database"]
    /\ client' = IF hist.route = "stream" THEN client ELSE ServerError
    /\ pc' = "done"
    /\ UNCHANGED <<svars, front, calc, req, interaction, up, ic, cur, yielded>>

\* A variant without contextlib.suppress: the listener's exception leaves _finalize.
AfterListenerUnsuppressed(raised) == IF raised THEN "done" ELSE "return"

\* with contextlib.suppress(Exception): await self._on_interaction(interaction)
AfterListener(raised) == "return"

\* _finalize: no listener is configured.
NoListener ==
    /\ pc = "notify"
    /\ hist' = [hist EXCEPT !.listener = "none"]
    /\ pc' = "return"
    /\ UNCHANGED <<svars, front, calc, req, interaction, up, ic, cur, yielded, client>>

\* _finalize: the listener is called and returns or raises.
Notify ==
    /\ pc = "notify"
    /\ \E raised \in BOOLEAN :
        /\ hist' = [hist EXCEPT !.listener = "set", !.notified = hist.notified + 1,
                                !.listener_raised = raised]
        /\ pc' = AfterListener(raised)
        /\ client' = IF AfterListener(raised) = "done" /\ hist.route # "stream"
                     THEN ServerError ELSE client
    /\ UNCHANGED <<svars, front, calc, req, interaction, up, ic, cur, yielded>>

\* What handle() returns, or how the body iterator ends.
Return ==
    /\ pc = "return"
    /\ client' =
          IF hist.route = "502" THEN [status |-> 502, body |-> ErrorJson, complete |-> TRUE]
          ELSE IF hist.route = "504" THEN [status |-> 504, body |-> ErrorJson, complete |-> TRUE]
          ELSE IF hist.route = "nonstream"
          THEN [status |-> up.status, body |-> up.body, complete |-> TRUE]
          ELSE [client EXCEPT !.complete = (hist.exc = "none")]
    /\ pc' = "done"
    /\ UNCHANGED <<svars, front, calc, req, interaction, up, ic, cur, yielded, hist>>

Init ==
    /\ rows = {}
    /\ committed = {}
    /\ tasks = [t \in Tasks |-> [pc |-> "idle", given |-> NoInteraction, ia |-> NoInteraction]]
    /\ HandlerIdle
    /\ front = NoRequest
    /\ calc = NoCalc

Next ==
    \/ Receive
    \/ SendConnectError
    \/ SendTimeout
    \/ SendTransportError
    \/ SendResponse
    \/ ReadBody
    \/ ReadBodyTimeout
    \/ ReadBodyError
    \/ StreamBlock
    \/ StreamEnd
    \/ StreamFails
    \/ StreamResume
    \/ StreamDisconnect
    \/ StreamFinally
    \/ Save
    \/ SaveFails
    \/ NoListener
    \/ Notify
    \/ Return

Spec == Init /\ [][Next]_vars


(***************************************************************************)
(* Claims about the request lifecycle.                                     *)
(***************************************************************************)
Stored == {r \in rows : r.id = interaction.id}

\* The bytes of the blocks the client has been sent.
Delivered ==
    Flatten(SubSeq(up.blocks, 1, IF hist.disconnected THEN up.pos - 1 ELSE up.pos))

\* The chunks a parse of the blocks received so far produces.
RECURSIVE ParseAll(_, _, _)
ParseAll(provider, st, blocks) ==
    IF blocks = <<>> \/ st.raised THEN st
    ELSE ParseAll(provider, ParseBlock(provider, st, Head(blocks)), Tail(blocks))

ReceivedChunks == ParseAll(req.provider, NewInterceptor, SubSeq(up.blocks, 1, up.pos)).chunks

\* C1: when a streamed response is over (the upstream sent all its blocks and
\* the client stayed), the blocks intercept() yielded are, concatenated, the
\* blocks of the upstream, whatever their lines hold.
ByteFidelity ==
    (pc = "done" /\ hist.route = "stream" /\ hist.fault = "none" /\ ~hist.disconnected)
        => yielded = Flatten(up.blocks)

\* C2: on the non-streaming, streaming, 502 and 504 paths the interaction is
\* persisted exactly once and the listener, when there is one, is called
\* exactly once, after the save.
ExactlyOnceFinalization ==
    (pc = "done" /\ hist.route \in {"nonstream", "stream", "502", "504"}
                 /\ hist.fault # "TransportError" /\ ~hist.save_failed)
        => /\ hist.saved = 1
           /\ Stored # {}
           /\ hist.listener # "none" => hist.notified = 1

\* C5: after a client disconnect in mid-stream the interaction is persisted
\* with a chunk for every complete line of the bytes received so far, the
\* block being forwarded included.
DisconnectKeepsReceivedLines ==
    (pc = "done" /\ hist.disconnected /\ ~hist.save_failed /\ hist.exc # "reassembly")
        => \E r \in Stored : r.stream_chunks = ReceivedChunks

\* C6: whenever the upstream connection fails (on send, while the body of a
\* non-streaming response is read, in mid-stream) the interaction is
\* persisted and carries the error text.
UpstreamFailurePersistsError ==
    (pc = "done" /\ hist.fault # "none" /\ ~hist.save_failed /\ hist.exc # "reassembly")
        => \E r \in Stored : r.error # NULL

\* C7: when the upstream refuses the connection the client receives 502 with
\* a JSON body carrying the error, and the persisted interaction has no
\* status_code, an error and a total_latency_ms.
ConnectFailureAnswered ==
    (pc = "done" /\ hist.fault = "ConnectError" /\ ~hist.save_failed)
        => /\ client = [status |-> 502, body |-> ErrorJson, complete |-> TRUE]
           /\ Stored # {}
           /\ \A r \in Stored :
                  r.status_code = 0 /\ r.error # NULL /\ r.total_latency_ms # NULL

\* A refused connection has been answered and recorded.
ConnectFailureDone ==
    pc = "done" /\ hist.fault = "ConnectError" /\ client.status = 502 /\ Stored # {}

\* C8: whenever the upstream times out (on connect, before the response, while
\* the body is read) the client receives 504 and the persisted interaction has
\* an error and no status_code.
TimeoutAnswered504 ==
    (pc = "done" /\ hist.fault = "Timeout" /\ ~hist.save_failed /\ hist.exc # "reassembly")
        => /\ client.status = 504
           /\ \E r \in Stored : r.error # NULL /\ r.status_code = 0

\* C9: when store.save fails the client still receives the upstream's status
\* and body, on the non-streaming and on the streaming path.
DatabaseFailureKeepsResponse ==
    (pc = "done" /\ hist.save_failed /\ hist.route \in {"nonstream", "stream"})
        => /\ client.status = up.status
           /\ client.body = IF hist.route = "stream" THEN Delivered ELSE up.body

\* The response a request gets, as the upstream and the client decide it.
ExpectedResponse ==
    IF hist.route = "502" THEN [status |-> 502, body |-> ErrorJson, complete |-> TRUE]
    ELSE IF hist.route = "504" THEN [status |-> 504, body |-> ErrorJson, complete |-> TRUE]
    ELSE IF hist.route = "nonstream"
    THEN [status |-> up.status, body |-> up.body, complete |-> TRUE]
    ELSE [status |-> up.status, body |-> Delivered,
          complete |-> (up.eof /\ ~ic.raised)]

\* C10: a listener that raises changes neither the response nor the persisted
\* interaction, and the listener is only called once the save has succeeded.
ListenerFailureSuppressed ==
    /\ hist.notified > 0 => (hist.saved = 1 /\ ~hist.save_failed /\ interaction \in rows)
    /\ (pc = "done" /\ hist.notified > 0) => client = ExpectedResponse

\* The listener raised on a request that was then answered.
ListenerRaisedDone == pc = "done" /\ hist.listener_raised /\ hist.route = "nonstream"

\* C11: an exception of a provider parser (parse_request, parse_response) or
\* of reassembly (reconstruct_response) is suppressed: the request is answered
\* with the upstream's response and the interaction is saved.
ParserFailureSuppressed ==
    (pc = "done" /\ hist.exc \in {"parser", "reassembly"}
                 /\ hist.fault = "none" /\ ~hist.disconnected)
        => /\ client.status = up.status /\ up.status # 0
           /\ Stored # {}

\* C12: parsing a stream line never raises, whatever the line and the provider.
StreamParsingNeverRaises == ~ic.raised

(***************************************************************************)
(* The front of the proxy: the router of create_app, provider detection    *)
(* and the choice of the body sent upstream.  A path is the sequence of its *)
(* "/" and of its segments.                                                *)
(***************************************************************************)
Methods == {"GET", "POST", "DELETE"}

Paths ==
    { <<"/">>,
      <<"/", "v1">>,
      <<"/", "v1", "/", "messages">>,
      <<"/", "v1", "/", "messages", "?beta=true">>,
      <<"/", "v1", "/", "chat">>,
      <<"/", "api", "/", "chat">>,
      <<"/", "something", "/", "else">>,
      <<"/", "_interceptor", "/", "health">>,
      <<"/", "_interceptor", "/", "interactions">>,
      <<"/", "_interceptor", "/", "interactions", "/", "abc">>,
      <<"/", "_interceptor", "/", "nothing">>,
      <<"/", "_interceptor">>,
      <<"/", "_session", "/", "s1">>,
      <<"/", "_session", "/", "s1", "?beta=true">>,
      <<"/", "_session", "/", "s1", "/">>,
      <<"/", "_session", "/", "s1", "/", "v1", "/", "chat">>,
      <<"/", "_session", "/", "s1", "/", "v1", "/", "messages", "?beta=true">> }

\* InterceptorConfig: the three upstream base URLs, by default or as set.
Configs ==
    { [openai_base_url |-> "https://api.openai.com",
       anthropic_base_url |-> "https://api.anthropic.com",
       ollama_base_url |-> "http://localhost:11434"],
      [openai_base_url |-> "http://openai.test",
       anthropic_base_url |-> "http://anthropic.test",
       ollama_base_url |-> "http://ollama.test"] }

\* A path parameter {name} of a route matches one segment that is not "/".
Param == "{param}"

\* The routes of create_app in their order; Starlette adds HEAD to GET routes.
Routes ==
    << [path |-> <<"/", "_interceptor", "/", "health">>, methods |-> {"GET", "HEAD"},
        endpoint |-> "health"],
       [path |-> <<"/", "_interceptor", "/", "stats">>, methods |-> {"GET", "HEAD"},
        endpoint |-> "stats"],
       [path |-> <<"/", "_interceptor", "/", "sessions">>, methods |-> {"GET", "HEAD"},
        endpoint |-> "list_sessions"],
       [path |-> <<"/", "_interceptor", "/", "interactions">>, methods |-> {"GET", "HEAD"},
        endpoint |-> "list_interactions"],
       [path |-> <<"/", "_interceptor", "/", "interactions">>, methods |-> {"DELETE"},
        endpoint |-> "clear_interactions"],
       [path |-> <<"/", "_interceptor", "/", "interactions", "/", Param>>,
        methods |-> {"GET", "HEAD"}, endpoint |-> "get_interaction"],
       [path |-> <<"/", "_interceptor", "/", "conversations">>, methods |-> {"GET", "HEAD"},
        endpoint |-> "list_conversations"],
       [path |-> <<"/", "_interceptor", "/", "conversations", "/", Param>>,
        methods |-> {"GET", "HEAD"}, endpoint |-> "get_conversation"],
       [path |-> <<"/", "{path:path}">>,
        methods |-> {"GET", "HEAD", "POST", "PUT", "DELETE", "PATCH", "OPTIONS"},
        endpoint |-> "proxy_catchall"] >>

\* Does the route's path pattern match the whole path?
PathMatches(pattern, path) ==
    IF pattern = <<"/", "{path:path}">>
    THEN path # <<>> /\ Head(path) = "/"
    ELSE /\ Len(pattern) = Len(path)
         /\ \A k \in 1..Len(pattern) :
                IF pattern[k] = Param THEN path[k] # "/" ELSE pattern[k] = path[k]

\* Router: the first route matching path and method answers; failing that,
\* the first route matching the path alone answers 405; failing that, 404.
RouteTo(method, path) ==
    LET full == {k \in 1..Len(Routes) :
                    PathMatches(Routes[k].path, path) /\ method \in Routes[k].methods}
        partial == {k \in 1..Len(Routes) : PathMatches(Routes[k].path, path)}
    IN  IF full # {} THEN Routes[CHOOSE k \in full : \A j \in full : k <= j].endpoint
        ELSE IF partial # {} THEN "method_not_allowed"
        ELSE "not_found"

\* ProviderRegistry.detect: the provider and the upstream base URL.
Detected(provider, upstream) == [provider |-> provider, upstream |-> upstream]

\* A variant that tests /v1/ before the anthropic-version header.
detect_path_first(config, path, headers) ==
    IF StartsWith(path, <<"/", "v1", "/", "messages">>)
    THEN Detected("anthropic", config.anthropic_base_url)
    ELSE IF StartsWith(path, <<"/", "api", "/">>)
    THEN Detected("ollama", config.ollama_base_url)
    ELSE IF StartsWith(path, <<"/", "v1", "/">>)
    THEN Detected("openai", config.openai_base_url)
    ELSE IF StartsWith(path, <<"/", "_interceptor", "/">>)
    THEN Detected("unknown", "")
    ELSE Detected("ollama", config.ollama_base_url)

\* A variant whose last rule answers the OpenAI upstream.
detect_default_openai(config, path, headers) ==
    IF StartsWith(path, <<"/", "v1", "/", "messages">>)
    THEN Detected("anthropic", config.anthropic_base_url)
    ELSE IF "anthropic-version" \in headers /\ StartsWith(path, <<"/", "v1", "/">>)
    THEN Detected("anthropic", config.anthropic_base_url)
    ELSE IF StartsWith(path, <<"/", "api", "/">>)
    THEN Detected("ollama", config.ollama_base_url)
    ELSE IF StartsWith(path, <<"/", "v1", "/">>)
    THEN Detected("openai", config.openai_base_url)
    ELSE IF StartsWith(path, <<"/", "_interceptor", "/">>)
    THEN Detected("unknown", "")
    ELSE Detected("openai", config.openai_base_url)

detect(config, path, headers) ==
    IF StartsWith(path, <<"/", "v1", "/", "messages">>)
    THEN Detected("anthropic", config.anthropic_base_url)
    ELSE IF "anthropic-version" \in headers /\ StartsWith(path, <<"/", "v1", "/">>)
    THEN Detected("anthropic", config.anthropic_base_url)
    ELSE IF StartsWith(path, <<"/", "api", "/">>)
    THEN Detected("ollama", config.ollama_base_url)
    ELSE IF StartsWith(path, <<"/", "v1", "/">>)
    THEN Detected("openai", config.openai_base_url)
    ELSE IF StartsWith(path, <<"/", "_interceptor", "/">>)
    THEN Detected("unknown", "")
    ELSE Detected("ollama", config.ollama_base_url)

\* request.url.path: the path without its query.
QueryParts == {"?beta=true"}

UrlPath(path) == SelectSeq(path, LAMBDA part : part \notin QueryParts)

(***************************************************************************)
(* Request bodies.  The bytes of a body are its kind (empty, text that is  *)
(* not JSON, brackets nested deeper than the decoder's recursion limit, a  *)
(* JSON value that is not an object, a JSON object), the                   *)
(* members stream and stream_options of the object, and its spacing:       *)
(* "dumps" is the spacing json.dumps writes, "compact" is another one.     *)
(***************************************************************************)
ABSENT == "absent"

Bytes(kind, stream, stream_options, spacing) ==
    [kind |-> kind, stream |-> stream, stream_options |-> stream_options, spacing |-> spacing]

\* The member stream_options: absent, null, or an object with its member
\* include_usage (absent, "false", "true").
NoOptions == [is |-> ABSENT, include_usage |-> ABSENT]
NullOptions == [is |-> NULL, include_usage |-> ABSENT]
Options(u) == [is |-> "dict", include_usage |-> u]

StreamOptionsDocs == {Options(u) : u \in {ABSENT, "false", "true"}}

RawBodies ==
    { Bytes("empty", ABSENT, NoOptions, "compact"),
      Bytes("text", ABSENT, NoOptions, "compact"),
      Bytes("deep", ABSENT, NoOptions, "compact"),
      Bytes("scalar", ABSENT, NoOptions, "compact") }
    \cup { Bytes("dict", s, o, f) : s \in {ABSENT, "false", "true"},
                                    o \in {NoOptions, NullOptions} \cup StreamOptionsDocs,
                                    f \in {"compact", "dumps"} }

\* A decoded body: the outer dict holds a reference into the heap of nested
\* dict objects for its stream_options member (0: no such member).
Dict(kind, stream, ref) == [kind |-> kind, stream |-> stream, stream_options |-> ref]

NoDict == Dict(NULL, ABSENT, 0)

\* json.loads raises RecursionError, which is neither a JSONDecodeError nor
\* a UnicodeDecodeError, on brackets nested deeper than the recursion limit.
json_loads_raises(raw) == raw.kind = "deep"

\* json.loads(raw_body), None when the body is empty or does not decode.
json_loads_body(raw) ==
    IF raw.kind \in {"empty", "text", "deep"} THEN [value |-> NoDict, heap |-> <<>>]
    ELSE IF raw.kind = "scalar" THEN [value |-> Dict("scalar", ABSENT, 0), heap |-> <<>>]
    ELSE IF raw.stream_options.is = ABSENT
    THEN [value |-> Dict("dict", raw.stream, 0), heap |-> <<>>]
    ELSE [value |-> Dict("dict", raw.stream, 1), heap |-> <<raw.stream_options>>]

\* The document a dict is, read through the heap.
Doc(heap, d) ==
    [kind |-> d.kind, stream |-> d.stream,
     stream_options |-> IF d.stream_options = 0 THEN NoOptions ELSE heap[d.stream_options]]

\* json.dumps(modified).encode("utf-8")
json_dumps(heap, d) ==
    LET doc == Doc(heap, d) IN Bytes(doc.kind, doc.stream, doc.stream_options, "dumps")

\* bool(body_dict): None and the empty dict are false.
Truthy(d) == d.kind = "scalar" \/ (d.kind = "dict" /\ (d.stream # ABSENT \/ d.stream_options # 0))

\* A variant that injects whatever include_usage already is.
should_inject_always(heap, body, provider) ==
    IF provider # "openai" THEN "no"
    ELSE IF body.stream # "true" THEN "no"
    ELSE IF body.stream_options = 0 THEN "yes"
    ELSE IF heap[body.stream_options].is = NULL THEN "raise"
    ELSE "yes"

\* should_inject_stream_options: "yes", "no", or "raise" when stream_options
\* is null (None has no get).
should_inject_stream_options(heap, body, provider) ==
    IF provider # "openai" THEN "no"
    ELSE IF body.stream # "true" THEN "no"
    ELSE IF body.stream_options = 0 THEN "yes"
    ELSE IF heap[body.stream_options].is = NULL THEN "raise"
    ELSE IF heap[body.stream_options].include_usage # "true" THEN "yes" ELSE "no"

\* inject_stream_options: body.copy() is a new outer dict that holds the same
\* nested objects; body.get("stream_options", {}) is the nested object itself
\* when there is one, and a new one otherwise.
inject_stream_options(heap, body) ==
    IF body.stream_options = 0
    THEN [heap |-> Append(heap, Options("true")),
          value |-> [body EXCEPT !.stream_options = Len(heap) + 1]]
    ELSE [heap |-> [heap EXCEPT ![body.stream_options].include_usage = "true"],
          value |-> body]

\* The positions of the "/" of a path.
Slashes(path) == {k \in 1..Len(path) : path[k] = "/"}

\* The position of the n-th "/".
NthSlash(path, n) ==
    CHOOSE k \in Slashes(path) : Cardinality({j \in Slashes(path) : j < k}) = n - 1

\* path.split("/", maxsplit): the parts around the first maxsplit "/", the
\* last part holding whatever follows, further "/" included.
split(path, maxsplit) ==
    LET n == IF Cardinality(Slashes(path)) < maxsplit
             THEN Cardinality(Slashes(path)) ELSE maxsplit
        cut(i) == IF i = 0 THEN 0 ELSE NthSlash(path, i)
    IN  [i \in 1..(n + 1) |->
            SubSeq(path, cut(i - 1) + 1, IF i = n + 1 THEN Len(path) ELSE cut(i) - 1)]

\* A variant that leaves the path as it came and sets no session ID.
StripSessionNever(path) == [session_id |-> <<>>, path |-> path]

\* handle(): the session ID and the path left once the prefix
\* /_session/{id}/ is taken off; session_id None is the empty sequence.
StripSession(path) ==
    IF StartsWith(path, <<"/", "_session", "/">>)
    THEN LET parts == split(path, 3) IN
         IF Len(parts) >= 4
         THEN [session_id |-> parts[3], path |-> <<"/">> \o parts[4]]
         ELSE IF Len(parts) = 3
         THEN [session_id |-> parts[3], path |-> <<"/">>]
         ELSE [session_id |-> <<>>, path |-> path]
    ELSE [session_id |-> <<>>, path |-> path]

\* A request at the router: url is request.url.path with "?" and the query
\* when there is one, path the variable of handle() that starts as url.
FrontRequest(method, path, headers, config, raw_body) ==
    [pc |-> "route", method |-> method, url |-> path, path |-> path,
     session_id |-> <<>>, headers |-> headers,
     config |-> config, raw_body |-> raw_body,
     endpoint |-> NULL, provider |-> NULL, upstream |-> NULL,
     heap |-> <<>>, body_dict |-> NoDict, request_body |-> NoDict,
     raw_request_body |-> Bytes(NULL, ABSENT, NoOptions, NULL), request_parsed |-> FALSE,
     forward_body |-> Bytes(NULL, ABSENT, NoOptions, NULL), injected_usage |-> FALSE, upstream_url |-> <<>>]

FrontInit ==
    /\ rows = {}
    /\ committed = {}
    /\ tasks = [t \in Tasks |-> [pc |-> "idle", given |-> NoInteraction, ia |-> NoInteraction]]
    /\ HandlerIdle
    /\ front = NoRequest
    /\ calc = NoCalc

\* A client sends a request.
Arrive ==
    /\ front.pc = "idle"
    /\ \E method \in Methods, path \in Paths, config \in Configs, raw_body \in RawBodies,
          headers \in {{}, {"anthropic-version"}} :
           front' = FrontRequest(method, path, headers, config, raw_body)
    /\ UNCHANGED <<svars, hvars, calc>>

\* The Starlette router picks the endpoint.
RouteRequest ==
    /\ front.pc = "route"
    /\ LET endpoint == RouteTo(front.method, UrlPath(front.path)) IN
       front' = [front EXCEPT !.endpoint = endpoint,
                              !.pc = IF endpoint = "proxy_catchall" THEN "detect" ELSE "local"]
    /\ UNCHANGED <<svars, hvars, calc>>

\* handle(): the session prefix is taken off the path, then
\* provider, parser, upstream_base = self._registry.detect(path, headers)
Detect ==
    /\ front.pc = "detect"
    /\ LET s == StripSession(front.path)
           d == detect(front.config, s.path, front.headers)
       IN  front' = [front EXCEPT !.session_id = s.session_id, !.path = s.path,
                                  !.provider = d.provider, !.upstream = d.upstream,
                                  !.pc = "parse"]
    /\ UNCHANGED <<svars, hvars, calc>>

\* handle(): decode the body and build the Interaction, whose request_body
\* holds the nested objects of body_dict; a body that is JSON and not an
\* object fails the validation of Interaction; then the provider's request
\* parser is run on a body_dict that is true.
ParseBody ==
    /\ front.pc = "parse"
    /\ LET r == json_loads_body(front.raw_body) IN
       IF json_loads_raises(front.raw_body)
       THEN front' = [front EXCEPT !.pc = "crashed"]
       ELSE IF r.value.kind = "scalar"
       THEN front' = [front EXCEPT !.body_dict = r.value, !.heap = r.heap, !.pc = "crashed"]
       ELSE front' = [front EXCEPT
                        !.body_dict = r.value, !.request_body = r.value, !.heap = r.heap,
                        !.raw_request_body =
                            IF front.raw_body.kind = "empty" THEN @ ELSE front.raw_body,
                        !.request_parsed = Truthy(r.value) /\ front.provider # "unknown",
                        !.pc = "inject"]
    /\ UNCHANGED <<svars, hvars, calc>>

\* handle(): forward_body is raw_body, or the re-serialized body with
\* stream_options.include_usage when should_inject_stream_options says so.
ChooseForwardBody ==
    /\ front.pc = "inject"
    /\ LET should == IF Truthy(front.body_dict)
                     THEN should_inject_stream_options(front.heap, front.body_dict,
                                                       front.provider)
                     ELSE "no"
       IN  IF should = "raise"
           THEN front' = [front EXCEPT !.pc = "crashed"]
           ELSE IF should = "yes"
           THEN LET m == inject_stream_options(front.heap, front.body_dict) IN
                front' = [front EXCEPT !.heap = m.heap,
                                       !.forward_body = json_dumps(m.heap, m.value),
                                       !.injected_usage = TRUE,
                                       !.pc = "send"]
           ELSE front' = [front EXCEPT !.forward_body = front.raw_body, !.pc = "send"]
    /\ UNCHANGED <<svars, hvars, calc>>

\* handle(): upstream_url = f"{upstream_base}{path}" and the request is sent;
\* a URL without a scheme is refused by the client.
SendUpstream ==
    /\ front.pc = "send"
    /\ front' = [front EXCEPT !.upstream_url = <<front.upstream, front.path>>,
                              !.pc = IF front.upstream = "" THEN "crashed" ELSE "forwarded"]
    /\ UNCHANGED <<svars, hvars, calc>>

FrontNext ==
    \/ Arrive
    \/ RouteRequest
    \/ Detect
    \/ ParseBody
    \/ ChooseForwardBody
    \/ SendUpstream

SpecFront == FrontInit /\ [][FrontNext]_vars

(***************************************************************************)
(* Claims about the threading rules.  A save() call resolves its threading *)
(* in the step that takes it from "resolve" to "insert".                   *)
(***************************************************************************)
Resolves(t) == tasks[t].pc = "resolve" /\ tasks'[t].pc = "insert"

\* The last turn of a conversation: the highest turn number, the latest
\* timestamp among equals.
LastTurn(turns) ==
    CHOOSE r \in turns :
        \A q \in turns :
            \/ q.turn_number < r.turn_number
            \/ q.turn_number = r.turn_number /\ q.timestamp <= r.timestamp

CarriesToolResults(ia) ==
    \E k \in 1..Len(ia.messages) :
        \/ ia.messages[k].role \in {"tool", "tool_result"}
        \/ \E b \in 1..Len(ia.messages[k].blocks) : ia.messages[k].blocks[b].type = "tool_result"

ExplicitOutcome(table, given, out) ==
    LET turns == {r \in table : r.conversation_id = given.conversation_id} IN
    /\ out.conversation_id = given.conversation_id
    /\ IF turns = {}
       THEN out.turn_number = 1 /\ out.turn_type = "initial" /\ out.parent_interaction_id = 0
       ELSE LET last == LastTurn(turns) IN
            /\ out.parent_interaction_id = last.id
            /\ out.turn_number = last.turn_number + 1
            /\ out.turn_type =
                   IF last.session_id # given.session_id THEN "handoff"
                   ELSE IF last.tool_calls # <<>> /\ CarriesToolResults(given) THEN "tool_result"
                   ELSE "continuation"

Echoes(given, prev) ==
    /\ prev.response_text # <<>>
    /\ \E k \in 1..Len(given.messages) :
           /\ given.messages[k].role = "assistant"
           /\ LET text == IF given.messages[k].ctype = "str" THEN given.messages[k].text
                          ELSE BlocksText(given.messages[k].blocks)
                  head == SubSeq(prev.response_text, 1,
                                 IF Len(prev.response_text) > 100 THEN 100
                                 ELSE Len(prev.response_text))
              IN  \E i \in 0..(Len(text) - Len(head)) : SubSeq(text, i + 1, i + Len(head)) = head

\* The continuation predicate: the echo, or tool results after tool calls.
Continues(given, prev) ==
    \/ Echoes(given, prev)
    \/ prev.tool_calls # <<>> /\ CarriesToolResults(given)

\* The most recent of a set of rows.
Latest(S) == CHOOSE r \in S : \A q \in S : q.timestamp <= r.timestamp

LinkedOutcome(given, prev, out) ==
    /\ out.conversation_id = prev.conversation_id
    /\ out.parent_interaction_id = prev.id
    /\ out.turn_number = prev.turn_number + 1
    /\ out.turn_type = IF prev.tool_calls # <<>> /\ CarriesToolResults(given)
                       THEN "tool_result" ELSE "continuation"

FreshOutcome(table, out) ==
    /\ out.conversation_id # NULL
    /\ \A r \in table : r.conversation_id # out.conversation_id
    /\ out.parent_interaction_id = 0
    /\ out.turn_number = 1
    /\ out.turn_type = "initial"

SessionOutcome(table, given, out) ==
    LET session == {r \in table : r.session_id = given.session_id} IN
    IF session # {} /\ Continues(given, Latest(session))
    THEN LinkedOutcome(given, Latest(session), out)
    ELSE FreshOutcome(table, out)

NScan == 12

\* A request that echoes nothing and is answered with text, and one that
\* echoes that text and is answered with a tool call.
ScanShapes ==
    { [messages |-> MsgUser,       response_text |-> TextHi, tool_calls |-> <<>>],
      [messages |-> MsgEchoBlocks, response_text |-> <<>>,   tool_calls |-> <<"call">>] }

ScanInit ==
    /\ rows = {}
    /\ committed = {}
    /\ tasks = <<>>
    /\ HandlerIdle
    /\ front = NoRequest
    /\ calc = NoCalc

\* save() from its call to its commit, with no other save() in between.
SaveInTurn ==
    /\ Len(tasks) < NScan
    /\ \E shape \in ScanShapes :
        LET id == Len(tasks) + 1
            given == NewInteraction(id, NULL, NULL, shape)
            out == resolve_threading(rows, given)
        IN  /\ rows' = Upsert(rows, out)
            /\ committed' = committed \cup {id}
            /\ tasks' = Append(tasks, [pc |-> "done", given |-> given, ia |-> out])
    /\ UNCHANGED <<hvars, front, calc>>

ScanNext == SaveInTurn

SpecScan == ScanInit /\ [][ScanNext]_vars

\* The rows stored before the k-th save, and the 10 most recent of them.
StoredBefore(k) == {r \in rows : r.id < k}

MostRecent10(S) == {r \in S : Cardinality({q \in S : q.timestamp > r.timestamp}) < 10}

\* C17: an interaction with neither session nor explicit conversation ID is
\* linked to the newest of the 10 most recent stored interactions that
\* satisfies the continuation predicate (its conversation, parent, turn + 1);
\* when none of the 10 does it starts a conversation at turn 1, initial.
GlobalScanLinked ==
    \A k \in 1..Len(tasks) :
        LET hits == {r \in MostRecent10(StoredBefore(k)) : Continues(tasks[k].given, r)} IN
        IF hits # {}
        THEN LinkedOutcome(tasks[k].given, Latest(hits), tasks[k].ia)
        ELSE FreshOutcome(StoredBefore(k), tasks[k].ia)

\* An interaction started a conversation although a stored interaction
\* older than the 10 most recent would have been continued by it.
OlderMatchIgnored ==
    \E k \in 1..Len(tasks) :
        /\ tasks[k].ia.turn_number = 1
        /\ \E r \in StoredBefore(k) : Continues(tasks[k].given, r)

(***************************************************************************)
(* Claims about the front of the proxy.                                    *)
(***************************************************************************)
\* The request has been through detect.
PastDetect == front.pc \in {"parse", "inject", "send", "forwarded"}

\* The request has been given its forwarded body.
PastInject == front.pc \in {"send", "forwarded"}

\* The body as the client sent it, decoded.
ReceivedDoc ==
    LET r == json_loads_body(front.raw_body) IN Doc(r.heap, r.value)

\* C13: after stream-usage injection the parsed body kept as request_body is
\* equal to what the client sent, a body with a stream_options object included.
InjectionLeavesBodyUnchanged ==
    (PastInject /\ front.injected_usage)
        => Doc(front.heap, front.request_body) = ReceivedDoc

\* The received body asks OpenAI for a stream and has not asked for usage.
InjectionCase ==
    /\ front.provider = "openai"
    /\ front.raw_body.kind = "dict"
    /\ front.raw_body.stream = "true"
    /\ front.raw_body.stream_options.include_usage # "true"

\* C14: the forwarded body differs from the received bytes exactly when the
\* provider is OpenAI, the body has stream true and include_usage is not
\* already true; otherwise it is the received bytes.
ForwardedDiffersIffInjected ==
    PastInject => ((front.forward_body # front.raw_body) <=> InjectionCase)

\* A body has been re-serialized with include_usage and is on its way.
InjectedBodyForwarded ==
    /\ front.pc = "forwarded"
    /\ front.injected_usage
    /\ front.forward_body # front.raw_body
    /\ front.forward_body.stream_options.include_usage = "true"

\* The decision table of provider detection, rule by rule, first match wins.
DetectionTable ==
    << [prefix |-> <<"/", "v1", "/", "messages">>, header |-> FALSE, provider |-> "anthropic"],
       [prefix |-> <<"/", "v1", "/">>, header |-> TRUE, provider |-> "anthropic"],
       [prefix |-> <<"/", "api", "/">>, header |-> FALSE, provider |-> "ollama"],
       [prefix |-> <<"/", "v1", "/">>, header |-> FALSE, provider |-> "openai"],
       [prefix |-> <<"/", "_interceptor", "/">>, header |-> FALSE, provider |-> "unknown"],
       [prefix |-> <<>>, header |-> FALSE, provider |-> "ollama"] >>

RuleApplies(rule, path, headers) ==
    StartsWith(path, rule.prefix) /\ (rule.header => "anthropic-version" \in headers)

FirstRule(path, headers) ==
    LET hits == {k \in 1..Len(DetectionTable) : RuleApplies(DetectionTable[k], path, headers)}
    IN  DetectionTable[CHOOSE k \in hits : \A j \in hits : k <= j]

ConfiguredUpstream(config, provider) ==
    IF provider = "openai" THEN config.openai_base_url
    ELSE IF provider = "anthropic" THEN config.anthropic_base_url
    ELSE IF provider = "ollama" THEN config.ollama_base_url
    ELSE ""

PathElsewhere ==
    /\ ~StartsWith(front.path, <<"/", "v1", "/">>)
    /\ ~StartsWith(front.path, <<"/", "api", "/">>)
    /\ ~StartsWith(front.path, <<"/", "_interceptor", "/">>)

ReservedPrefixLocal ==
    (front.pc \notin {"idle", "route"} /\ StartsWith(front.path, <<"/", "_interceptor", "/">>))
        => front.endpoint # "proxy_catchall"

(***************************************************************************)
(* The session prefix.                                                     *)
(***************************************************************************)
\* The request came to /_session/{id}/rest, with or without a query string.
SessionWithRest ==
    /\ StartsWith(front.url, <<"/", "_session", "/">>)
    /\ Len(UrlPath(front.url)) >= 5
    /\ front.url[5] = "/"

\* The request came to /_session/{id} and nothing more.
SessionAlone ==
    /\ StartsWith(front.url, <<"/", "_session", "/">>)
    /\ Len(front.url) = 4
    /\ front.url[4] \notin QueryParts

MaxHeaders == 2

RedactKeep == 12

Mask == <<"*", "*", "*">>

HeaderNames ==
    {"authorization", "X-Api-Key", "api-key", "openai-api-key", "x-tag", "Host",
     "accept-encoding"}

\* Values of 5, 12 and 13 characters; the last two differ in the 13th only.
Chars(n, last) == [k \in 1..n |-> IF k = n THEN last ELSE "k"]

HeaderValues == {Chars(5, "k"), Chars(12, "k"), Chars(13, "a"), Chars(13, "b")}

\* str.lower() on the names above.
Lower(name) ==
    CASE name = "X-Api-Key" -> "x-api-key"
      [] name = "Host" -> "host"
      [] OTHER -> name

HOP_BY_HOP_HEADERS ==
    {"connection", "keep-alive", "proxy-authenticate", "proxy-authorization", "te",
     "trailers", "transfer-encoding", "upgrade", "host", "content-length"}

STRIP_REQUEST_HEADERS == {"accept-encoding"}

SensitiveKeys == {"authorization", "x-api-key", "api-key", "openai-api-key"}

\* The header lines of a request in the order sent: <<name, value>> pairs.
HeaderLists == UNION {[1..n -> HeaderNames \X HeaderValues] : n \in 0..MaxHeaders}

\* dict(request.headers): the server hands the names over in lower case;
\* Headers.keys() lists every line and Headers[key] is the value of the
\* first line of that name, so a repeated name keeps its first value.
HeadersDict(raw) ==
    [name \in {Lower(raw[k][1]) : k \in 1..Len(raw)} |->
        raw[CHOOSE k \in 1..Len(raw) :
                /\ Lower(raw[k][1]) = name
                /\ \A j \in 1..(k - 1) : Lower(raw[j][1]) # name][2]]

\* A variant that keeps 8 characters of a sensitive value.
redact_headers_keep8(headers, redact) ==
    IF ~redact THEN headers
    ELSE [key \in DOMAIN headers |->
            IF Lower(key) \in SensitiveKeys
            THEN IF Len(headers[key]) > 8 THEN Take(headers[key], 8) \o Mask ELSE Mask
            ELSE headers[key]]

redact_headers(headers, redact) ==
    IF ~redact THEN headers
    ELSE [key \in DOMAIN headers |->
            IF Lower(key) \in SensitiveKeys
            THEN IF Len(headers[key]) > RedactKeep
                 THEN Take(headers[key], RedactKeep) \o Mask
                 ELSE Mask
            ELSE headers[key]]

\* forward_headers: the headers whose lower-case name is not excluded.
ForwardHeadersOf(request_headers) ==
    LET excluded == HOP_BY_HOP_HEADERS \cup STRIP_REQUEST_HEADERS
        kept == {k \in DOMAIN request_headers : Lower(k) \notin excluded}
    IN  [k \in kept |-> request_headers[k]]

EmptyDict == [k \in {} |-> <<>>]

HeadersInit ==
    /\ rows = {}
    /\ committed = {}
    /\ tasks = [t \in Tasks |-> [pc |-> "idle", given |-> NoInteraction, ia |-> NoInteraction]]
    /\ HandlerIdle
    /\ front = NoRequest
    /\ calc \in {[pc |-> "received", raw |-> raw, redact_api_keys |-> redact,
                  request_headers |-> EmptyDict, stored |-> EmptyDict,
                  forward_headers |-> EmptyDict] :
                     raw \in HeaderLists, redact \in BOOLEAN}

\* handle(): request_headers = dict(request.headers)
ReadHeaders ==
    /\ calc.pc = "received"
    /\ calc' = [calc EXCEPT !.request_headers = HeadersDict(calc.raw), !.pc = "read"]
    /\ UNCHANGED <<svars, hvars, front>>

\* handle(): Interaction(request_headers=redact_headers(request_headers, ...))
StoreHeaders ==
    /\ calc.pc = "read"
    /\ calc' = [calc EXCEPT
                  !.stored = redact_headers(calc.request_headers, calc.redact_api_keys),
                  !.pc = "stored"]
    /\ UNCHANGED <<svars, hvars, front>>

\* handle(): forward_headers, handed to build_request
ForwardHeaders ==
    /\ calc.pc = "stored"
    /\ calc' = [calc EXCEPT !.forward_headers = ForwardHeadersOf(calc.request_headers),
                            !.pc = "sent"]
    /\ UNCHANGED <<svars, hvars, front>>

HeadersNext ==
    \/ ReadHeaders
    \/ StoreHeaders
    \/ ForwardHeaders

SpecHeaders == HeadersInit /\ [][HeadersNext]_vars

\* The value stored for a sensitive header of value v.
Redacted(v) == IF Len(v) > 12 THEN SubSeq(v, 1, 12) \o <<"*", "*", "*">> ELSE <<"*", "*", "*">>

LinesToForward ==
    {k \in 1..Len(calc.raw) :
        Lower(calc.raw[k][1]) \notin HOP_BY_HOP_HEADERS \cup STRIP_REQUEST_HEADERS}

\* C30: the headers handed to the upstream request are exactly the received
\* header lines that are neither hop-by-hop nor accept-encoding, each with
\* the value received, whether redaction is enabled or not.
ForwardedHeadersExact ==
    calc.pc = "sent" =>
        /\ \A k \in LinesToForward :
              /\ Lower(calc.raw[k][1]) \in DOMAIN calc.forward_headers
              /\ calc.forward_headers[Lower(calc.raw[k][1])] = calc.raw[k][2]
        /\ \A name \in DOMAIN calc.forward_headers :
              \E k \in LinesToForward :
                  /\ Lower(calc.raw[k][1]) = name
                  /\ calc.raw[k][2] = calc.forward_headers[name]

\* The same for the requests that send no header name twice.
NoRepeatedName ==
    \A j, k \in 1..Len(calc.raw) : Lower(calc.raw[j][1]) = Lower(calc.raw[k][1]) => j = k

ForwardedHeadersExactUnrepeated ==
    (calc.pc = "sent" /\ NoRepeatedName) => ForwardedHeadersExact

(***************************************************************************)
(* Saving and loading one interaction.  A Python value is a tagged record: *)
(* its type t and its content v (a text, a list, a record of members); a   *)
(* column of the row is NULL, a plain value, or a JSON text whose content  *)
(* is the JSON document written.  The identifiers and the threading fields *)
(* are plain values as in the threading model above.                       *)
(***************************************************************************)
Py(t, v) == [t |-> t, v |-> v]

PyNone == Py("None", 0)

SqlNull == Py("NULL", 0)

ModelClasses == {"StreamChunk", "TokenUsage", "CostEstimate", "ContextMetrics"}

\* The members a model class declares as datetime.
DatetimeFields(cls) == IF cls = "StreamChunk" THEN {"timestamp"} ELSE {}

\* A variant that writes whole seconds only.
isoformat_seconds(dt) ==
    Py("str", <<"iso", IF dt.v = "12:00:00.5" THEN "12:00:00" ELSE dt.v>>)

\* datetime.isoformat(), and the same text from model_dump(mode="json")
isoformat(dt) == Py("str", <<"iso", dt.v>>)

\* pydantic reading a datetime member from its ISO text
parse_datetime(s) == Py("datetime", s.v[2])

\* item.model_dump(mode="json"): a dict of the members, datetimes as text
model_dump(obj) ==
    Py("dict", [f \in DOMAIN obj.v |->
                   IF obj.v[f].t = "datetime" THEN isoformat(obj.v[f]) ELSE obj.v[f]])

\* _serialize_json(value)
serialize_json(value) ==
    IF value = PyNone THEN SqlNull
    ELSE IF value.t = "list"
    THEN Py("json", Py("list", [k \in 1..Len(value.v) |->
                                   IF value.v[k].t \in ModelClasses
                                   THEN model_dump(value.v[k]) ELSE value.v[k]]))
    ELSE IF value.t \in ModelClasses THEN Py("json", model_dump(value))
    ELSE Py("json", value)

\* _deserialize_json(value)
deserialize_json(column) == IF column = SqlNull THEN PyNone ELSE column.v

\* bool(value) of None, a dict or a list
IsTruthy(value) ==
    /\ value # PyNone
    /\ value.t = "dict" => DOMAIN value.v # {}
    /\ value.t = "list" => Len(value.v) > 0

\* cls(**data): the members validated, a datetime member read from its text
Construct(cls, data) ==
    Py(cls, [f \in DOMAIN data.v |->
                IF f \in DatetimeFields(cls) /\ data.v[f].t = "str"
                THEN parse_datetime(data.v[f]) ELSE data.v[f]])

\* cls(**data) if data else None
ConstructIf(cls, data) == IF IsTruthy(data) THEN Construct(cls, data) ELSE PyNone

\* The row that save() inserts for an interaction.
InsertedRow(ia, store_stream_chunks) ==
    [ id |-> ia.id,
      session_id |-> ia.session_id,
      timestamp |-> isoformat(ia.timestamp),
      request_headers |-> Py("json", ia.request_headers),
      provider |-> Py("str", ia.provider.v),
      is_streaming |-> Py("int", IF ia.is_streaming.v THEN 1 ELSE 0),
      stream_chunks |-> IF store_stream_chunks THEN serialize_json(ia.stream_chunks)
                        ELSE SqlNull,
      token_usage |-> serialize_json(ia.token_usage),
      cost_estimate |-> serialize_json(ia.cost_estimate),
      total_latency_ms |-> ia.total_latency_ms,
      conversation_id |-> ia.conversation_id,
      parent_interaction_id |-> ia.parent_interaction_id,
      turn_number |-> ia.turn_number,
      turn_type |-> ia.turn_type,
      context_metrics |-> serialize_json(ia.context_metrics) ]

\* _row_to_interaction(row)
row_to_interaction(row) ==
    LET chunks_data == deserialize_json(row.stream_chunks) IN
    [ id |-> row.id,
      session_id |-> row.session_id,
      timestamp |-> parse_datetime(row.timestamp),
      request_headers |-> row.request_headers.v,
      provider |-> Py("Provider", row.provider.v),
      is_streaming |-> Py("bool", row.is_streaming.v # 0),
      stream_chunks |-> IF IsTruthy(chunks_data)
                        THEN Py("list", [k \in 1..Len(chunks_data.v) |->
                                            Construct("StreamChunk", chunks_data.v[k])])
                        ELSE Py("list", <<>>),
      token_usage |-> ConstructIf("TokenUsage", deserialize_json(row.token_usage)),
      cost_estimate |-> ConstructIf("CostEstimate", deserialize_json(row.cost_estimate)),
      total_latency_ms |-> row.total_latency_ms,
      conversation_id |-> row.conversation_id,
      parent_interaction_id |-> row.parent_interaction_id,
      turn_number |-> row.turn_number,
      turn_type |-> row.turn_type,
      context_metrics |-> ConstructIf("ContextMetrics", deserialize_json(row.context_metrics)) ]

\* The objects an interaction may hold when it reaches save().
Timestamps == {"12:00:00", "12:00:00.5"}

StreamChunkAt(index, parsed) ==
    Py("StreamChunk", [index |-> Py("int", index), timestamp |-> Py("datetime", "12:00:00.5"),
                       data |-> Py("str", <<"d">>), parsed |-> parsed, delta_text |-> PyNone])

ChunkLists ==
    { <<>>,
      <<StreamChunkAt(0, PyNone)>>,
      <<StreamChunkAt(0, Py("dict", [type |-> Py("str", <<"x">>)])), StreamChunkAt(1, PyNone)>> }

TokenUsages ==
    { PyNone,
      Py("TokenUsage", [input_tokens |-> PyNone, output_tokens |-> PyNone,
                        cache_creation_tokens |-> PyNone, cache_read_tokens |-> PyNone,
                        total_tokens |-> PyNone]),
      Py("TokenUsage", [input_tokens |-> Py("int", 10), output_tokens |-> Py("int", 5),
                        cache_creation_tokens |-> PyNone, cache_read_tokens |-> PyNone,
                        total_tokens |-> Py("int", 15)]) }

CostEstimates ==
    { PyNone,
      Py("CostEstimate", [input_cost |-> Py("float", "0.0"), output_cost |-> Py("float", "0.0"),
                          total_cost |-> Py("float", "0.0"), model |-> PyNone,
                          note |-> Py("str", <<"n">>)]),
      Py("CostEstimate", [input_cost |-> Py("float", "0.003"),
                          output_cost |-> Py("float", "0.006"),
                          total_cost |-> Py("float", "0.009"),
                          model |-> Py("str", <<"m">>), note |-> PyNone]) }

ContextMetricsMenu ==
    { PyNone,
      Py("ContextMetrics", [message_count |-> Py("int", 0), user_turn_count |-> Py("int", 0),
                            assistant_turn_count |-> Py("int", 0),
                            tool_result_count |-> Py("int", 0),
                            context_depth_chars |-> Py("int", 0),
                            new_messages_this_turn |-> PyNone,
                            system_prompt_length |-> Py("int", 0),
                            system_prompt_hash |-> PyNone]) }

StoredHeaders == {Py("dict", <<>>), Py("dict", [authorization |-> Py("str", <<"*", "*", "*">>)])}

RoundTripInit ==
    /\ rows = {}
    /\ committed = {}
    /\ tasks = [t \in Tasks |-> [pc |-> "idle", given |-> NoInteraction, ia |-> NoInteraction]]
    /\ HandlerIdle
    /\ front = NoRequest
    /\ \E sid \in SessionIds, conv \in ExplicitConvIds, ts \in Timestamps,
          streaming \in BOOLEAN, chunks \in ChunkLists, usage \in TokenUsages,
          cost \in CostEstimates, metrics \in ContextMetricsMenu, headers \in StoredHeaders,
          store_stream_chunks \in BOOLEAN :
            calc = [ pc |-> "built",
                     store_stream_chunks |-> store_stream_chunks,
                     ia |-> [ id |-> 1, session_id |-> sid,
                              timestamp |-> Py("datetime", ts),
                              request_headers |-> headers,
                              provider |-> Py("Provider", "openai"),
                              is_streaming |-> Py("bool", streaming),
                              stream_chunks |-> Py("list", chunks),
                              token_usage |-> usage, cost_estimate |-> cost,
                              total_latency_ms |-> Py("float", "15.5"),
                              conversation_id |-> conv, parent_interaction_id |-> 0,
                              turn_number |-> 0, turn_type |-> NULL,
                              context_metrics |-> metrics ],
                     row |-> SqlNull,
                     loaded |-> PyNone ]

\* save(interaction) on an empty store: the threading fields are set on the
\* interaction, then the row is written and committed.
SaveThenCommit ==
    /\ calc.pc = "built"
    /\ LET out == resolve_threading({}, calc.ia) IN
       calc' = [calc EXCEPT !.ia = out,
                            !.row = InsertedRow(out, calc.store_stream_chunks),
                            !.pc = "saved"]
    /\ UNCHANGED <<svars, hvars, front>>

\* get(interaction.id)
GetSaved ==
    /\ calc.pc = "saved"
    /\ calc' = [calc EXCEPT !.loaded = row_to_interaction(calc.row), !.pc = "loaded"]
    /\ UNCHANGED <<svars, hvars, front>>

RoundTripNext ==
    \/ SaveThenCommit
    \/ GetSaved

SpecRoundTrip == RoundTripInit /\ [][RoundTripNext]_vars

IndexedFromZero(chunks) == \A i \in 1..Len(chunks) : chunks[i].index = i - 1

\* C24: at every point of a stream the interceptor's chunk list, the chunk
\* list of the interaction and the chunk list of every saved interaction
\* (complete or cut short by a disconnect) satisfy chunks[i].index == i.
ChunkIndexMonotone ==
    /\ IndexedFromZero(ic.chunks)
    /\ ic.chunk_index = Len(ic.chunks)
    /\ IndexedFromZero(interaction.stream_chunks)
    /\ \A r \in rows : IndexedFromZero(r.stream_chunks)

\* A stream of two chunks was saved, numbered 0 and 1.
TwoChunksSaved ==
    /\ pc = "done"
    /\ \E r \in Stored :
          /\ Len(r.stream_chunks) = 2
          /\ r.stream_chunks[1].index = 0
          /\ r.stream_chunks[2].index = 1

(***************************************************************************)
(* OpenAI cost estimation.  A model name is a sequence of parts chosen so  *)
(* that one name is a prefix of another exactly when its parts are;        *)
(* prices are in cents per million tokens and token counts in millions.    *)
(***************************************************************************)
MaxMTokens == 2

\* OPENAI_PRICING in the order of the dict.
OPENAI_PRICING ==
    << [key |-> <<"gpt-4", "o">>, input |-> 250, output |-> 1000],
       [key |-> <<"gpt-4", "o", "-mini">>, input |-> 15, output |-> 60],
       [key |-> <<"gpt-4", "-turbo">>, input |-> 1000, output |-> 3000],
       [key |-> <<"gpt-4">>, input |-> 3000, output |-> 6000],
       [key |-> <<"gpt-3.5-turbo">>, input |-> 50, output |-> 150],
       [key |-> <<"o1">>, input |-> 1500, output |-> 6000],
       [key |-> <<"o1", "-mini">>, input |-> 300, output |-> 1200],
       [key |-> <<"o3-mini">>, input |-> 110, output |-> 440] >>

\* The model names estimate_cost is called with; <<>> is None.
ModelNames ==
    {OPENAI_PRICING[k].key : k \in 1..Len(OPENAI_PRICING)}
    \cup { <<>>, <<"claude">>, <<"gpt-4", "o", "-2024-08-06">>,
           <<"gpt-4", "o", "-mini", "-2024-07-18">>, <<"gpt-4", "-turbo", "-preview">>,
           <<"gpt-4", "-0613">>, <<"o1", "-mini", "-2024-09-12">>, <<"o1", "-preview">> }

NoUsage == [is |-> "None", input_tokens |-> 0, output_tokens |-> 0]

\* TokenUsage; a count of None is 0, as `usage.input_tokens or 0` reads it.
Usages ==
    {NoUsage} \cup {[is |-> "TokenUsage", input_tokens |-> i, output_tokens |-> o] :
                       i \in 0..MaxMTokens, o \in 0..MaxMTokens}

NoEstimate ==
    [is |-> "None", input_cost |-> 0, output_cost |-> 0, total_cost |-> 0,
     model |-> <<>>, note |-> NULL]

CostEstimate(input_cost, output_cost, model, note) ==
    [is |-> "CostEstimate", input_cost |-> input_cost, output_cost |-> output_cost,
     total_cost |-> input_cost + output_cost, model |-> model, note |-> note]

\* OpenAIParser.estimate_cost: the entry of the model name, or else the
\* first entry in the order of the dict whose key the name starts with.
estimate_cost(model, usage) ==
    IF model = <<>> \/ usage = NoUsage THEN NoEstimate
    ELSE LET exact == {k \in 1..Len(OPENAI_PRICING) : OPENAI_PRICING[k].key = model}
             prefixes == {k \in 1..Len(OPENAI_PRICING) :
                             StartsWith(model, OPENAI_PRICING[k].key)}
             found == IF exact # {} THEN exact ELSE prefixes
         IN  IF found = {}
             THEN CostEstimate(0, 0, model, "Unknown model, no pricing available")
             ELSE LET pricing == OPENAI_PRICING[CHOOSE k \in found : \A j \in found : k <= j]
                  IN  CostEstimate(usage.input_tokens * pricing.input,
                                   usage.output_tokens * pricing.output, model, NULL)

CostInit ==
    /\ rows = {}
    /\ committed = {}
    /\ tasks = [t \in Tasks |-> [pc |-> "idle", given |-> NoInteraction, ia |-> NoInteraction]]
    /\ HandlerIdle
    /\ front = NoRequest
    /\ calc \in {[pc |-> "call", model |-> model, usage |-> usage, estimate |-> NoEstimate] :
                    model \in ModelNames, usage \in Usages}

\* parser.estimate_cost(interaction.model, interaction.token_usage)
EstimateCost ==
    /\ calc.pc = "call"
    /\ calc' = [calc EXCEPT !.estimate = estimate_cost(calc.model, calc.usage),
                            !.pc = "returned"]
    /\ UNCHANGED <<svars, hvars, front>>

CostNext == EstimateCost

SpecCost == CostInit /\ [][CostNext]_vars

\* The table keys the model name starts with, the name itself included.
PrefixKeys(model) ==
    {k \in 1..Len(OPENAI_PRICING) : StartsWith(model, OPENAI_PRICING[k].key)}

\* The longest of them.
LongestPrefixKey(model) ==
    CHOOSE k \in PrefixKeys(model) :
        \A j \in PrefixKeys(model) : Len(OPENAI_PRICING[j].key) <= Len(OPENAI_PRICING[k].key)

\* The estimate is made with the pricing of table entry k.
PricedAs(k) ==
    /\ calc.estimate.is = "CostEstimate"
    /\ calc.estimate.input_cost = calc.usage.input_tokens * OPENAI_PRICING[k].input
    /\ calc.estimate.output_cost = calc.usage.output_tokens * OPENAI_PRICING[k].output
    /\ calc.estimate.total_cost = calc.estimate.input_cost + calc.estimate.output_cost

\* C27: for a model name and a usage, estimate_cost prices with the table
\* entry equal to the name when there is one, otherwise with the longest
\* table key that is a prefix of the name; when no key matches it returns
\* an estimate with total 0 and a note.
CostUsesLongestPrefix ==
    (calc.pc = "returned" /\ calc.model # <<>> /\ calc.usage # NoUsage) =>
        IF PrefixKeys(calc.model) = {}
        THEN /\ calc.estimate.is = "CostEstimate"
             /\ calc.estimate.total_cost = 0
             /\ calc.estimate.note # NULL
        ELSE PricedAs(LongestPrefixKey(calc.model))

\* The same for the names that are a table key or start with no table key.
CostExactOrUnknown ==
    ( /\ calc.pc = "returned" /\ calc.model # <<>> /\ calc.usage # NoUsage
      /\ \A k \in PrefixKeys(calc.model) : OPENAI_PRICING[k].key = calc.model )
        => CostUsesLongestPrefix

(***************************************************************************)
(* Reassembly of a streamed response by the three parsers.  A chunk is the *)
(* StreamChunk with the members of chunk.parsed the parsers read; a count  *)
(* of NoCount is a member that is absent.                                  *)
(***************************************************************************)
MaxChunks == 3

NoCount == 0 - 1

NoToolDelta == [index |-> NoCount, id |-> "", name |-> NULL, arguments |-> <<>>]

\* A chunk whose parsed dict has none of the members read.
PlainChunk ==
    [type |-> "", delta_text |-> <<>>, model |-> NULL, block |-> NULL, delta |-> NULL,
     text |-> <<>>, tool_call |-> NoToolDelta, block_id |-> "", block_name |-> "",
     input_tokens |-> NoCount, output_tokens |-> NoCount, done |-> FALSE,
     null_member |-> FALSE]

OpenAIChunks ==
    { [PlainChunk EXCEPT !.delta_text = <<"h">>, !.model = "gpt-4o"],
      [PlainChunk EXCEPT !.tool_call = [index |-> 0, id |-> "call1", name |-> "f",
                                        arguments |-> <<>>]],
      [PlainChunk EXCEPT !.tool_call = [index |-> 0, id |-> "", name |-> NULL,
                                        arguments |-> <<"{", "}">>]],
      [PlainChunk EXCEPT !.input_tokens = 3, !.output_tokens = 2],
      [PlainChunk EXCEPT !.null_member = TRUE] }

AnthropicChunks ==
    { [PlainChunk EXCEPT !.type = "message_start", !.model = "claude", !.input_tokens = 3],
      [PlainChunk EXCEPT !.type = "content_block_start", !.block = "tool_use",
                         !.block_id = "t1"],
      [PlainChunk EXCEPT !.type = "content_block_delta", !.delta = "input_json_delta",
                         !.text = <<"{", "}">>],
      [PlainChunk EXCEPT !.type = "content_block_delta", !.delta = "text_delta",
                         !.text = <<"h">>, !.delta_text = <<"h">>],
      [PlainChunk EXCEPT !.type = "content_block_stop"],
      [PlainChunk EXCEPT !.type = "message_delta", !.output_tokens = 2] }

OllamaChunks ==
    { [PlainChunk EXCEPT !.delta_text = <<"h">>, !.model = "llama"],
      [PlainChunk EXCEPT !.done = TRUE, !.input_tokens = 3, !.output_tokens = 2],
      [PlainChunk EXCEPT !.done = TRUE],
      [PlainChunk EXCEPT !.null_member = TRUE] }

ChunksOf(provider) ==
    IF provider = "openai" THEN OpenAIChunks
    ELSE IF provider = "anthropic" THEN AnthropicChunks
    ELSE OllamaChunks

NoTokens == [is |-> "None", input_tokens |-> NoCount, output_tokens |-> NoCount]

Tokens(input_tokens, output_tokens) ==
    [is |-> "TokenUsage", input_tokens |-> input_tokens, output_tokens |-> output_tokens]

\* What the loop of a reconstruct_response holds between two chunks.
NoParts ==
    [raised |-> FALSE, text_parts |-> <<>>, model |-> NULL, tool_calls |-> <<>>,
     current_tool |-> NULL, current_name |-> "", tool_json_parts |-> <<>>,
     input_tokens |-> NoCount, output_tokens |-> NoCount, token_usage |-> NoTokens]

\* "".join(parts)
RECURSIVE Join(_)
Join(parts) == IF parts = <<>> THEN <<>> ELSE Head(parts) \o Join(Tail(parts))

\* The dict a reconstruct_response returns, or that it raised.
Reassembled(acc, token_usage) ==
    [raised |-> acc.raised,
     response_text |-> IF acc.text_parts = <<>> THEN PyNone
                       ELSE Py("str", Join(acc.text_parts)),
     model |-> acc.model,
     tool_calls |-> acc.tool_calls,
     token_usage |-> token_usage]

\* OpenAIParser.reconstruct_response, one turn of its loop: tool calls are
\* kept by index, here the position in tool_calls of the entry of that id.
OpenAIStep(acc, chunk) ==
    IF acc.raised \/ chunk.null_member THEN [acc EXCEPT !.raised = TRUE]
    ELSE LET tc == chunk.tool_call
             known == {k \in 1..Len(acc.tool_calls) : acc.tool_calls[k].index = tc.index}
             entry == IF known = {}
                      THEN [index |-> tc.index, id |-> tc.id, name |-> "",
                            arguments |-> <<>>]
                      ELSE acc.tool_calls[CHOOSE k \in known : TRUE]
             merged == [entry EXCEPT
                          !.id = IF tc.id # "" THEN tc.id ELSE @,
                          !.name = IF tc.name # NULL THEN tc.name ELSE @,
                          !.arguments = @ \o tc.arguments]
         IN  [acc EXCEPT
                !.text_parts = IF chunk.delta_text # <<>> THEN Append(@, chunk.delta_text)
                               ELSE @,
                !.model = IF @ = NULL THEN chunk.model ELSE @,
                !.tool_calls = IF tc.index = NoCount THEN @
                               ELSE IF known = {} THEN Append(@, merged)
                               ELSE [@ EXCEPT ![CHOOSE k \in known : TRUE] = merged],
                !.token_usage = IF chunk.input_tokens # NoCount
                                   \/ chunk.output_tokens # NoCount
                                THEN Tokens(chunk.input_tokens, chunk.output_tokens)
                                ELSE @]

\* A variant that keeps the JSON parts of the tool block before when a tool
\* block starts.
AnthropicStepKeepsParts(acc, chunk) ==
    IF acc.raised \/ chunk.null_member THEN [acc EXCEPT !.raised = TRUE]
    ELSE IF chunk.type = "message_start"
    THEN [acc EXCEPT !.model = chunk.model, !.input_tokens = chunk.input_tokens]
    ELSE IF chunk.type = "content_block_start"
    THEN IF chunk.block = "tool_use"
         THEN [acc EXCEPT !.current_tool = chunk.block_id,
                          !.current_name = chunk.block_name]
         ELSE acc
    ELSE IF chunk.type = "content_block_delta"
    THEN IF chunk.delta \in {"text_delta", "thinking_delta"}
         THEN [acc EXCEPT !.text_parts = Append(@, chunk.text)]
         ELSE IF chunk.delta = "input_json_delta"
         THEN [acc EXCEPT !.tool_json_parts = Append(@, chunk.text)]
         ELSE acc
    ELSE IF chunk.type = "content_block_stop"
    THEN IF acc.current_tool # NULL
         THEN LET raw_json == Join(acc.tool_json_parts) IN
              [acc EXCEPT
                 !.tool_calls = Append(@, [index |-> 0, id |-> acc.current_tool,
                                           name |-> acc.current_name,
                                           arguments |->
                                               IF json_loads(raw_json).kind = "fail"
                                               THEN <<"str">> \o raw_json
                                               ELSE <<"json">> \o raw_json]),
                 !.current_tool = NULL]
         ELSE acc
    ELSE IF chunk.type = "message_delta"
    THEN [acc EXCEPT !.output_tokens = IF chunk.output_tokens # NoCount
                                       THEN chunk.output_tokens ELSE @]
    ELSE acc

\* AnthropicParser.reconstruct_response, one turn of its loop.
AnthropicStep(acc, chunk) ==
    IF acc.raised \/ chunk.null_member THEN [acc EXCEPT !.raised = TRUE]
    ELSE IF chunk.type = "message_start"
    THEN [acc EXCEPT !.model = chunk.model, !.input_tokens = chunk.input_tokens]
    ELSE IF chunk.type = "content_block_start"
    THEN IF chunk.block = "tool_use"
         THEN [acc EXCEPT !.current_tool = chunk.block_id,
                          !.current_name = chunk.block_name, !.tool_json_parts = <<>>]
         ELSE acc
    ELSE IF chunk.type = "content_block_delta"
    THEN IF chunk.delta \in {"text_delta", "thinking_delta"}
         THEN [acc EXCEPT !.text_parts = Append(@, chunk.text)]
         ELSE IF chunk.delta = "input_json_delta"
         THEN [acc EXCEPT !.tool_json_parts = Append(@, chunk.text)]
         ELSE acc
    ELSE IF chunk.type = "content_block_stop"
    THEN IF acc.current_tool # NULL
         THEN LET raw_json == Join(acc.tool_json_parts) IN
              [acc EXCEPT
                 !.tool_calls = Append(@, [index |-> 0, id |-> acc.current_tool,
                                           name |-> acc.current_name,
                                           arguments |->
                                               IF json_loads(raw_json).kind = "fail"
                                               THEN <<"str">> \o raw_json
                                               ELSE <<"json">> \o raw_json]),
                 !.current_tool = NULL]
         ELSE acc
    ELSE IF chunk.type = "message_delta"
    THEN [acc EXCEPT !.output_tokens = IF chunk.output_tokens # NoCount
                                       THEN chunk.output_tokens ELSE @]
    ELSE acc

\* OllamaParser.reconstruct_response, one turn of its loop.
OllamaStep(acc, chunk) ==
    [acc EXCEPT
       !.text_parts = IF chunk.delta_text # <<>> THEN Append(@, chunk.delta_text) ELSE @,
       !.model = IF @ = NULL THEN chunk.model ELSE @,
       !.token_usage = IF chunk.done /\ (chunk.input_tokens # NoCount
                                         \/ chunk.output_tokens # NoCount)
                       THEN Tokens(chunk.input_tokens, chunk.output_tokens)
                       ELSE @]

\* for chunk in chunks: ...
RECURSIVE Loop(_, _, _)
Loop(provider, acc, chunks) ==
    IF chunks = <<>> THEN acc
    ELSE Loop(provider,
              IF provider = "openai" THEN OpenAIStep(acc, Head(chunks))
              ELSE IF provider = "anthropic" THEN AnthropicStep(acc, Head(chunks))
              ELSE OllamaStep(acc, Head(chunks)),
              Tail(chunks))

\* The result of parser.reconstruct_response(chunks) for the parser of a provider.
Reconstructed(provider, chunks) ==
    LET acc == Loop(provider, NoParts, chunks) IN
    IF provider = "anthropic"
    THEN Reassembled(acc, IF acc.input_tokens # NoCount \/ acc.output_tokens # NoCount
                          THEN Tokens(acc.input_tokens, acc.output_tokens)
                          ELSE NoTokens)
    ELSE Reassembled(acc, acc.token_usage)

\* A variant that takes the chunks off the list as it reads them.
ReconstructDraining(provider, chunks) ==
    [chunks |-> <<>>, result |-> Reconstructed(provider, chunks)]

\* A call of reconstruct_response: the chunk list after it and its result.
\* The three loops read the chunks and write to locals only.
ReconstructCall(provider, chunks) ==
    [chunks |-> chunks, result |-> Reconstructed(provider, chunks)]

ReassemblyInit ==
    /\ rows = {}
    /\ committed = {}
    /\ tasks = [t \in Tasks |-> [pc |-> "idle", given |-> NoInteraction, ia |-> NoInteraction]]
    /\ HandlerIdle
    /\ front = NoRequest
    /\ \E provider \in Providers :
       \E chunks \in UNION {[1..n -> ChunksOf(provider)] : n \in 0..MaxChunks} :
           calc = [pc |-> "chunks", provider |-> provider, given |-> chunks,
                   chunks |-> chunks, first |-> Reassembled(NoParts, NoTokens),
                   second |-> Reassembled(NoParts, NoTokens)]

\* parser.reconstruct_response(chunks)
ReconstructOnce ==
    /\ calc.pc = "chunks"
    /\ LET r == ReconstructCall(calc.provider, calc.chunks) IN
       calc' = [calc EXCEPT !.chunks = r.chunks, !.first = r.result, !.pc = "once"]
    /\ UNCHANGED <<svars, hvars, front>>

\* parser.reconstruct_response(chunks) again, on the same list
ReconstructAgain ==
    /\ calc.pc = "once"
    /\ LET r == ReconstructCall(calc.provider, calc.chunks) IN
       calc' = [calc EXCEPT !.chunks = r.chunks, !.second = r.result, !.pc = "twice"]
    /\ UNCHANGED <<svars, hvars, front>>

ReassemblyNext ==
    \/ ReconstructOnce
    \/ ReconstructAgain

SpecReassembly == ReassemblyInit /\ [][ReassemblyNext]_vars

MaxTime == 3

MaxSkew == 1

Monotonic == calc.now

WallClock == calc.now + calc.offset

ClockInit ==
    /\ rows = {}
    /\ committed = {}
    /\ tasks = [t \in Tasks |-> [pc |-> "idle", given |-> NoInteraction, ia |-> NoInteraction]]
    /\ HandlerIdle
    /\ front = NoRequest
    /\ calc = [pc |-> "arrived", now |-> 0, offset |-> 0, adjusted |-> FALSE,
               start_time |-> 0, timestamp |-> 0,
               first_chunk_time |-> 0, has_first_chunk |-> FALSE,
               time_to_first_token_ms |-> 0, has_time_to_first_token |-> FALSE,
               total_latency_ms |-> 0]

\* A millisecond passes.
Tick ==
    /\ calc.pc # "saved"
    /\ calc.now < MaxTime
    /\ calc' = [calc EXCEPT !.now = @ + 1]
    /\ UNCHANGED <<svars, hvars, front>>

\* The system clock is set (by hand, by a time service, on resuming a host).
SetSystemClock ==
    /\ calc.pc # "saved"
    /\ \E offset \in (0 - MaxSkew)..MaxSkew :
          /\ offset # calc.offset
          /\ calc' = [calc EXCEPT !.offset = offset, !.adjusted = TRUE]
    /\ UNCHANGED <<svars, hvars, front>>

\* handle(): start_time = time.monotonic()
TakeStartTime ==
    /\ calc.pc = "arrived"
    /\ calc' = [calc EXCEPT !.start_time = Monotonic, !.pc = "started"]
    /\ UNCHANGED <<svars, hvars, front>>

\* handle(): request_time = datetime.now(UTC), the interaction's timestamp
TakeRequestTime ==
    /\ calc.pc = "started"
    /\ calc' = [calc EXCEPT !.timestamp = WallClock, !.pc = "streaming"]
    /\ UNCHANGED <<svars, hvars, front>>

\* intercept(): the first block of the stream arrives
FirstBlockArrives ==
    /\ calc.pc = "streaming"
    /\ ~calc.has_first_chunk
    /\ calc' = [calc EXCEPT !.first_chunk_time = WallClock, !.has_first_chunk = TRUE]
    /\ UNCHANGED <<svars, hvars, front>>

\* stream_body(), finally: the two latencies are computed and the
\* interaction is saved.
FinishStream ==
    /\ calc.pc = "streaming"
    /\ calc' = [calc EXCEPT
                  !.total_latency_ms = Monotonic - calc.start_time,
                  !.time_to_first_token_ms =
                      IF calc.has_first_chunk THEN calc.first_chunk_time - calc.timestamp
                      ELSE 0,
                  !.has_time_to_first_token = calc.has_first_chunk,
                  !.pc = "saved"]
    /\ UNCHANGED <<svars, hvars, front>>

ClockNext ==
    \/ Tick
    \/ SetSystemClock
    \/ TakeStartTime
    \/ TakeRequestTime
    \/ FirstBlockArrives
    \/ FinishStream

SpecClock == ClockInit /\ [][ClockNext]_vars

\* C26: in a saved interaction that has both latencies,
\* time_to_first_token_ms <= total_latency_ms.
LatencyOrdered ==
    (calc.pc = "saved" /\ calc.has_time_to_first_token)
        => calc.time_to_first_token_ms <= calc.total_latency_ms

\* The same for the requests during which the system clock was not set.
LatencyOrderedSteadyClock ==
    (calc.pc = "saved" /\ calc.has_time_to_first_token /\ ~calc.adjusted)
        => calc.time_to_first_token_ms <= calc.total_latency_ms

(***************************************************************************)
(* The non-streaming path.                                                 *)
(***************************************************************************)
\* The body of an upstream response was read on the non-streaming path and
\* the request is over.
NonStreamingOver == pc = "done" /\ hist.route = "nonstream" /\ up.eof

\* The client has the upstream's status and body, and the interaction is
\* stored with that status, without response_body and response text when
\* the body is not JSON.
ForwardedAndRecorded ==
    /\ client.status = up.status
    /\ client.body = up.body
    /\ \E r \in Stored :
          /\ r.status_code = up.status
          /\ json_loads(up.body).kind = "fail" =>
                (r.response_body = NULL /\ r.response_text = <<>>)

\* C28: for every upstream response handled on the non-streaming path,
\* whatever its status and whether or not its body is JSON, the client
\* receives the upstream's status and body bytes and the stored interaction
\* records that status, with response_body null and no response text when
\* the body is not JSON.
NonStreamingTransparent == NonStreamingOver => ForwardedAndRecorded

\* The same for the responses whose body is not JSON or is a JSON object the
\* provider's parser reads, when the save succeeds.
NonStreamingTransparentParsed ==
    (NonStreamingOver /\ hist.exc = "none") => ForwardedAndRecorded

(***************************************************************************)
(* A request body that is not JSON.                                        *)
(***************************************************************************)
\* The body is not empty and does not decode as JSON.
Malformed(raw) == raw.kind \in {"text", "deep"}

\* The handler is past the decoding of the body.
PastParse == front.pc \in {"inject", "send", "forwarded", "crashed"}

\* The request goes on to the upstream with the body as received, the
\* interaction has request_body None and the raw body, and no provider
\* parser was run on the request.
KeptAsReceived ==
    /\ front.pc # "crashed"
    /\ front.request_body = NoDict
    /\ front.raw_request_body = front.raw_body
    /\ ~front.request_parsed
    /\ PastInject => (front.forward_body = front.raw_body /\ ~front.injected_usage)

\* C29: when the request body does not decode as JSON the request is still
\* forwarded to the upstream with its body unchanged, the interaction has
\* request_body null and raw_request_body populated, and no provider
\* request parser is run.
MalformedRequestForwarded ==
    (PastParse /\ Malformed(front.raw_body)) => KeptAsReceived

\* The same for the bodies on which json.loads raises JSONDecodeError, sent
\* to a path that has an upstream.
MalformedTextForwarded ==
    (PastParse /\ front.raw_body.kind = "text" /\ front.provider # "unknown")
        => KeptAsReceived

(***************************************************************************)
(* Opening the database (storage/migrations.py).  A database is the set of *)
(* its schema objects (tables, columns, indexes) and the versions recorded *)
(* in schema_version.  The connection is Python's sqlite3 connection with  *)
(* its default isolation level: an INSERT opens a transaction when none is *)
(* open; CREATE and ALTER open none, and outside a transaction each takes  *)
(* effect in the file at once.  calc.durable is the file, calc.view what   *)
(* the connection sees, its uncommitted work included.                     *)
(***************************************************************************)
SCHEMA_VERSION == 3

Statement(op, mig, obj, version) == [op |-> op, mig |-> mig, obj |-> obj, version |-> version]

\* The statements of apply_migrations in program order; mig is the version
\* whose `if current_version < mig` block holds the statement, 0 for the
\* statements outside the blocks.
MigrationProgram ==
    << Statement("create", 0, "schema_version", 0),
       Statement("select", 0, "", 0),
       Statement("create", 1, "interactions", 0),
       Statement("create", 1, "idx_interactions_timestamp", 0),
       Statement("create", 1, "idx_interactions_provider", 0),
       Statement("create", 1, "idx_interactions_model", 0),
       Statement("create", 1, "idx_interactions_path", 0),
       Statement("insert", 1, "", 1),
       Statement("alter", 2, "session_id", 0),
       Statement("create", 2, "idx_interactions_session_id", 0),
       Statement("insert", 2, "", 2),
       Statement("alter", 3, "conversation_id", 0),
       Statement("alter", 3, "parent_interaction_id", 0),
       Statement("alter", 3, "turn_number", 0),
       Statement("alter", 3, "turn_type", 0),
       Statement("alter", 3, "context_metrics", 0),
       Statement("create", 3, "idx_interactions_conversation_id", 0),
       Statement("insert", 3, "", 3),
       Statement("commit", 0, "", 0) >>

Database(schema, versions) == [schema |-> schema, versions |-> versions]

\* The schema objects that the migrations up to version v create.
SchemaAt(v) ==
    {MigrationProgram[i].obj : i \in {j \in DOMAIN MigrationProgram :
        /\ MigrationProgram[j].op \in {"create", "alter"}
        /\ MigrationProgram[j].mig \in 1..v}}

\* A database as a completed run of an earlier release of the program left
\* it, or a new file.
DatabaseAt(v) ==
    Database((IF v = 0 THEN {} ELSE {"schema_version"}) \cup SchemaAt(v), 1..v)

Max(S) == CHOOSE x \in S : \A y \in S : y <= x

\* SELECT version FROM schema_version ORDER BY version DESC LIMIT 1, and 0
\* for no row
RecordedVersion(db) == Max(db.versions \cup {0})

\* The statement that runs after statement `at` when current_version is cv:
\* the blocks of the versions up to cv are skipped.
NextStatement(at, cv) ==
    CHOOSE i \in (at + 1)..Len(MigrationProgram) :
        /\ MigrationProgram[i].mig = 0 \/ cv < MigrationProgram[i].mig
        /\ \A j \in (at + 1)..(i - 1) :
              ~(MigrationProgram[j].mig = 0 \/ cv < MigrationProgram[j].mig)

\* sqlite3, isolation_level "": a transaction begins before an INSERT when
\* none is open.
ImplicitBegin(st, in_transaction) == st.op = "insert" /\ ~in_transaction

MigrationsInit ==
    /\ rows = {}
    /\ committed = {}
    /\ tasks = [t \in Tasks |-> [pc |-> "idle", given |-> NoInteraction, ia |-> NoInteraction]]
    /\ HandlerIdle
    /\ front = NoRequest
    /\ \E v \in 0..SCHEMA_VERSION :
          calc = [pc |-> "closed", at |-> 0, durable |-> DatabaseAt(v), view |-> DatabaseAt(v),
                  in_transaction |-> FALSE, txn |-> 0, current_version |-> 0,
                  started_at |-> v, ran |-> <<>>, killed |-> FALSE]

\* InteractionStore.initialize: aiosqlite.connect
OpenDatabase ==
    /\ calc.pc = "closed"
    /\ calc' = [calc EXCEPT !.pc = "migrating", !.at = 1, !.view = calc.durable,
                            !.in_transaction = FALSE, !.txn = 0, !.current_version = 0,
                            !.started_at = RecordedVersion(calc.durable), !.ran = <<>>]
    /\ UNCHANGED <<svars, hvars, front>>

\* apply_migrations: a CREATE ... IF NOT EXISTS or an ALTER TABLE ... ADD
\* COLUMN.  Adding a column that exists raises OperationalError.
ExecuteDDL ==
    /\ calc.pc = "migrating"
    /\ LET st == MigrationProgram[calc.at]
           schema == calc.view.schema \cup {st.obj}
       IN /\ st.op \in {"create", "alter"}
          /\ IF st.op = "alter"
                /\ (st.obj \in calc.view.schema \/ "interactions" \notin calc.view.schema)
             THEN calc' = [calc EXCEPT !.pc = "failed"]
             ELSE calc' = [calc EXCEPT
                    !.view.schema = schema,
                    !.durable.schema = IF calc.in_transaction THEN @ ELSE @ \cup {st.obj},
                    !.ran = IF st.mig = 0 THEN @
                            ELSE Append(@, [mig |-> st.mig,
                                            txn |-> IF calc.in_transaction THEN calc.txn ELSE 0]),
                    !.at = NextStatement(calc.at, calc.current_version)]
    /\ UNCHANGED <<svars, hvars, front>>

\* apply_migrations: current_version = row[0] if row else 0
ReadVersion ==
    /\ calc.pc = "migrating"
    /\ MigrationProgram[calc.at].op = "select"
    /\ LET cv == RecordedVersion(calc.view)
       IN calc' = [calc EXCEPT !.current_version = cv, !.at = NextStatement(calc.at, cv)]
    /\ UNCHANGED <<svars, hvars, front>>

\* apply_migrations: INSERT INTO schema_version (version) VALUES (mig)
InsertVersion ==
    /\ calc.pc = "migrating"
    /\ LET st == MigrationProgram[calc.at]
           begins == ImplicitBegin(st, calc.in_transaction)
           txn == IF begins THEN calc.txn + 1 ELSE calc.txn
       IN /\ st.op = "insert"
          /\ calc' = [calc EXCEPT
                !.in_transaction = TRUE,
                !.txn = txn,
                !.view.versions = @ \cup {st.version},
                !.ran = Append(@, [mig |-> st.mig, txn |-> txn]),
                !.at = NextStatement(calc.at, calc.current_version)]
    /\ UNCHANGED <<svars, hvars, front>>

\* apply_migrations: await db.commit()
CommitMigrations ==
    /\ calc.pc = "migrating"
    /\ MigrationProgram[calc.at].op = "commit"
    /\ calc' = [calc EXCEPT !.durable = calc.view, !.in_transaction = FALSE, !.pc = "ready"]
    /\ UNCHANGED <<svars, hvars, front>>

\* The process ends while the migrations run (a signal, a power cut): the
\* file keeps what was committed.
Kill ==
    /\ calc.pc = "migrating"
    /\ calc' = [calc EXCEPT !.pc = "closed", !.view = calc.durable,
                            !.in_transaction = FALSE, !.killed = TRUE]
    /\ UNCHANGED <<svars, hvars, front>>

\* InteractionStore.close, or the exit of the process after initialize()
\* has raised: uncommitted work is rolled back.
CloseDatabase ==
    /\ calc.pc \in {"ready", "failed"}
    /\ calc' = [calc EXCEPT !.pc = "closed", !.view = calc.durable, !.in_transaction = FALSE]
    /\ UNCHANGED <<svars, hvars, front>>

MigrationsNext ==
    \/ OpenDatabase
    \/ ExecuteDDL
    \/ ReadVersion
    \/ InsertVersion
    \/ CommitMigrations
    \/ Kill
    \/ CloseDatabase

SpecMigrations == MigrationsInit /\ [][MigrationsNext]_vars

\* The versions whose statements this opening of the database has run, in
\* the order of their first statement.
RECURSIVE AppliedIn(_)
AppliedIn(ran) ==
    IF ran = <<>> THEN <<>>
    ELSE LET rest == AppliedIn(SubSeq(ran, 1, Len(ran) - 1))
             mig == ran[Len(ran)].mig
         IN IF \E i \in DOMAIN rest : rest[i] = mig THEN rest ELSE Append(rest, mig)

\* The transactions under which the statements of version mig ran; 0 stands
\* for a statement that ran outside every transaction.
TransactionsOf(mig) == {calc.ran[i].txn : i \in {j \in DOMAIN calc.ran : calc.ran[j].mig = mig}}

\* The missing migrations were applied in ascending order and recorded.
AppliedAscendingAndRecorded ==
    /\ AppliedIn(calc.ran) = [i \in 1..(SCHEMA_VERSION - calc.started_at) |-> calc.started_at + i]
    /\ calc.durable.versions = 1..SCHEMA_VERSION
    /\ calc.durable.schema = DatabaseAt(SCHEMA_VERSION).schema

\* Every applied migration ran under one transaction, which was its own.
OwnTransactionPerVersion ==
    \A mig \in 1..SCHEMA_VERSION :
        TransactionsOf(mig) # {} =>
            /\ Cardinality(TransactionsOf(mig)) = 1
            /\ 0 \notin TransactionsOf(mig)
            /\ \A other \in 1..SCHEMA_VERSION :
                  other # mig => TransactionsOf(other) \cap TransactionsOf(mig) = {}

\* C31: when a database recorded at version v (0 to 3) has been opened,
\* the migrations v+1..3 have been applied in ascending order, each under
\* its own single transaction, and each is recorded in schema_version; at
\* version 3 nothing was applied.
MigrationsTransactional ==
    calc.pc = "ready" => (AppliedAscendingAndRecorded /\ OwnTransactionPerVersion)

\* The same without the transactions: order and record alone, for a
\* database that no earlier opening was killed on.
MigrationsAscending ==
    (calc.pc = "ready" /\ ~calc.killed) => AppliedAscendingAndRecorded

\* What the file holds is the schema of the version it records: violated as
\* soon as a CREATE or ALTER of a migration has run outside a transaction.
DurableSchemaMatchesVersion ==
    calc.durable.schema \ {"schema_version"} = SchemaAt(RecordedVersion(calc.durable))

\* No opening of the database raises.
OpeningSucceeds == calc.pc # "failed"

(***************************************************************************)
(* clear() among concurrent save() calls on the one shared connection.     *)
(* clear() suspends at its COUNT query, at its DELETE and at its commit,   *)
(* and the saves of other requests run in between.                         *)
(***************************************************************************)
ClearInit ==
    /\ rows = {}
    /\ committed = {}
    /\ tasks = [t \in Tasks |-> [pc |-> "idle", given |-> NoInteraction, ia |-> NoInteraction]]
    /\ HandlerIdle
    /\ front = NoRequest
    /\ calc = [pc |-> "idle", count |-> 0, removed |-> {}, returned |-> 0]

\* clear_interactions: DELETE /_interceptor/interactions calls store.clear()
ClearCalled ==
    /\ calc.pc = "idle"
    /\ calc' = [calc EXCEPT !.pc = "count"]
    /\ UNCHANGED <<svars, hvars, front>>

\* clear(): SELECT COUNT(*) FROM interactions
ClearCount ==
    /\ calc.pc = "count"
    /\ calc' = [calc EXCEPT !.count = Cardinality(rows), !.pc = "delete"]
    /\ UNCHANGED <<svars, hvars, front>>

\* clear(): DELETE FROM interactions
ClearDelete ==
    /\ calc.pc = "delete"
    /\ rows' = {}
    /\ calc' = [calc EXCEPT !.removed = {r.id : r \in rows}, !.pc = "commit"]
    /\ UNCHANGED <<committed, tasks, hvars, front>>

\* clear(): commit, return count
ClearCommit ==
    /\ calc.pc = "commit"
    /\ committed' = {r.id : r \in rows}
    /\ calc' = [calc EXCEPT !.returned = calc.count, !.pc = "done"]
    /\ UNCHANGED <<rows, tasks, hvars, front>>

ClearNext ==
    \/ \E t \in Tasks : SaveCalled(t) \/ SaveResolve(t) \/ SaveInsert(t) \/ SaveCommit(t)
    \/ ClearCalled
    \/ ClearCount
    \/ ClearDelete
    \/ ClearCommit

SpecClear == ClearInit /\ [][ClearNext]_vars

\* clear() has returned.
ClearReturned == calc.pc = "done"

\* No row that the DELETE met is in the store.
NoOldRowKept == \A r \in rows : r.id \notin calc.removed

\* C32: with saves of concurrent requests interleaved, the count clear()
\* returns is the number of rows that call removed, and the store holds no
\* row that was present when the delete ran.
ClearReturnsDeletedCount ==
    ClearReturned => (calc.returned = Cardinality(calc.removed) /\ NoOldRowKept)

\* The second half alone: after clear() has returned, the store holds no row
\* that was present when the delete ran.
ClearRemovesAllRows == ClearReturned => NoOldRowKept

(***************************************************************************)
(* compute_context_metrics (proxy/context.py).  A message is a dict with a *)
(* role (NULL when the key is missing) and a content; a content and the    *)
(* text of a block are tagged Python values Py(t, v); a block is a dict    *)
(* with type, text, content and input, or something that is not a dict.    *)
(* The input of a tool_use block is a dict of n one-character keys with    *)
(* one-digit values.                                                       *)
(***************************************************************************)
MaxMessages == 3

Block(type, text, content, input) ==
    [type |-> type, text |-> text, content |-> content, input |-> input]

Message(role, content) == [role |-> role, content |-> content]

PyStr(s) == Py("str", s)

PyList(blocks) == Py("list", blocks)

PyAbsent == Py("absent", <<>>)

PyNumber == Py("int", 0)

TextBlock(text) == Block("text", text, PyAbsent, 0)

\* len(json.dumps(inp)) for a dict of n entries: {"a": 1, "b": 2}
JsonDumpsLen(n) == IF n = 0 THEN 2 ELSE 2 + 6 * n + 2 * (n - 1)

RECURSIVE SumSeq(_)
SumSeq(s) == IF s = <<>> THEN 0 ELSE s[1] + SumSeq(Tail(s))

\* len(block.get("text", "")) raises TypeError on a text that has no length.
RECURSIVE measure_raises(_)
measure_raises(content) ==
    /\ content.t = "list"
    /\ \E i \in DOMAIN content.v :
          LET block == content.v[i]
          IN \/ block.type = "text" /\ block.text.t \in {"None", "int"}
             \/ block.type \in {"tool_result", "tool_use"} /\ measure_raises(block.content)

RECURSIVE measure_content(_)
measure_content(content) ==
    IF content.t \in {"None", "absent"} THEN 0
    ELSE IF content.t = "str" THEN Len(content.v)
    ELSE IF content.t # "list" THEN 0
    ELSE SumSeq([i \in DOMAIN content.v |->
            LET block == content.v[i]
            IN IF block.type = "nondict" THEN 0
               ELSE IF block.type = "text"
                    THEN (IF block.text.t = "absent" THEN 0 ELSE Len(block.text.v))
               ELSE IF block.type \in {"tool_result", "tool_use"}
                    THEN measure_content(block.content)
                         + (IF block.input > 0 THEN JsonDumpsLen(block.input) ELSE 0)
               ELSE 0])

Count(messages, roles) == Cardinality({i \in DOMAIN messages : messages[i].role \in roles})

\* hashlib.sha256(...).hexdigest()[:16]: a token of the prompt
Sha256Head(prompt) == <<"sha256", prompt>>

ContextMetrics(message_count, user_turn_count, assistant_turn_count, tool_result_count,
               context_depth_chars, new_messages_this_turn, system_prompt_length,
               system_prompt_hash) ==
    [ raised |-> FALSE,
      message_count |-> message_count, user_turn_count |-> user_turn_count,
      assistant_turn_count |-> assistant_turn_count, tool_result_count |-> tool_result_count,
      context_depth_chars |-> context_depth_chars,
      new_messages_this_turn |-> new_messages_this_turn,
      system_prompt_length |-> system_prompt_length, system_prompt_hash |-> system_prompt_hash ]

MetricsRaised == [raised |-> TRUE]

\* context_depth_chars without `context_depth_chars += system_prompt_length`.
compute_context_metrics_no_prompt(messages, system_prompt, prev_message_count) ==
    IF \E i \in DOMAIN messages : measure_raises(messages[i].content) THEN MetricsRaised
    ELSE ContextMetrics(
           Len(messages), Count(messages, {"user"}), Count(messages, {"assistant"}),
           Count(messages, {"tool", "tool_result"}),
           SumSeq([i \in DOMAIN messages |-> measure_content(messages[i].content)]),
           NULL, Len(system_prompt),
           IF system_prompt # <<>> THEN Sha256Head(system_prompt) ELSE <<>>)

\* messages and system_prompt are <<>> for None as for empty; the handler
\* passes no prev_message_count (NULL).
compute_context_metrics(messages, system_prompt, prev_message_count) ==
    IF \E i \in DOMAIN messages : measure_raises(messages[i].content) THEN MetricsRaised
    ELSE ContextMetrics(
           Len(messages), Count(messages, {"user"}), Count(messages, {"assistant"}),
           Count(messages, {"tool", "tool_result"}),
           SumSeq([i \in DOMAIN messages |-> measure_content(messages[i].content)])
               + Len(system_prompt),
           IF prev_message_count = NULL THEN NULL ELSE Len(messages) - prev_message_count,
           Len(system_prompt),
           IF system_prompt # <<>> THEN Sha256Head(system_prompt) ELSE <<>>)

\* Messages of the shapes of section "Dynamic content shapes", with roles
\* the function counts and roles it does not, and the shapes the function
\* passes over.
MessageMenu ==
    { Message("user", PyStr(<<"h", "i">>)),
      Message("assistant", PyNone),
      Message("assistant", PyList(<<TextBlock(PyStr(<<"o", "k">>)),
                                    Block("tool_use", PyAbsent, PyAbsent, 1)>>)),
      Message("tool", PyStr(<<"4">>)),
      Message("tool_result", PyList(<<Block("nondict", PyAbsent, PyAbsent, 0)>>)),
      Message("user", PyList(<<Block("tool_result", PyAbsent,
                                     PyList(<<TextBlock(PyStr(<<"4", "2">>))>>), 0),
                               Block("image", PyAbsent, PyAbsent, 0)>>)),
      Message("user", PyList(<<Block("tool_result", PyAbsent, PyStr(<<"n", "o">>), 0),
                               TextBlock(PyAbsent)>>)),
      Message("system", PyStr(<<"b", "e">>)),
      Message("developer", PyNumber),
      Message(NULL, PyStr(<<"x">>)),
      Message("user", PyList(<<TextBlock(PyNone)>>)) }

MessageLists == UNION {[1..n -> MessageMenu] : n \in 0..MaxMessages}

SystemPrompts == {<<>>, <<"B", "e">>, <<"B", "e", " ", "b", "r", "i", "e", "f">>}

ContextInit ==
    /\ rows = {}
    /\ committed = {}
    /\ tasks = [t \in Tasks |-> [pc |-> "idle", given |-> NoInteraction, ia |-> NoInteraction]]
    /\ HandlerIdle
    /\ front = NoRequest
    /\ \E messages \in MessageLists, system_prompt \in SystemPrompts :
          calc = [pc |-> "called", messages |-> messages, system_prompt |-> system_prompt,
                  metrics |-> MetricsRaised]

\* handle(): interaction.context_metrics = compute_context_metrics(messages,
\* system_prompt)
ComputeContextMetrics ==
    /\ calc.pc = "called"
    /\ LET metrics == compute_context_metrics(calc.messages, calc.system_prompt, NULL)
       IN calc' = [calc EXCEPT !.metrics = metrics,
                               !.pc = IF metrics.raised THEN "raised" ELSE "returned"]
    /\ UNCHANGED <<svars, hvars, front>>

ContextNext == ComputeContextMetrics

SpecContext == ContextInit /\ [][ContextNext]_vars

\* C33: the metrics that compute_context_metrics returns have
\* user_turn_count + assistant_turn_count + tool_result_count <= message_count
\* and context_depth_chars >= system_prompt_length.
ContextMetricsSane ==
    calc.pc = "returned" =>
        /\ calc.metrics.user_turn_count + calc.metrics.assistant_turn_count
               + calc.metrics.tool_result_count <= calc.metrics.message_count
        /\ calc.metrics.context_depth_chars >= calc.metrics.system_prompt_length

\* Metrics were returned for a list with a message of a role that is not
\* counted, nested tool_result content and a system prompt longer than the
\* content of the messages.
OtherRolesAndNestedContent ==
    /\ calc.pc = "returned"
    /\ calc.metrics.message_count = 3
    /\ calc.metrics.user_turn_count + calc.metrics.assistant_turn_count
           + calc.metrics.tool_result_count < calc.metrics.message_count
    /\ \E i \in DOMAIN calc.messages :
          /\ calc.messages[i].content.t = "list"
          /\ \E j \in DOMAIN calc.messages[i].content.v :
                calc.messages[i].content.v[j].type = "tool_result"
    /\ calc.metrics.system_prompt_length > 0
    /\ calc.metrics.context_depth_chars < 2 * calc.metrics.system_prompt_length

(***************************************************************************)
(* The interceptor on a stream of bytes that the upstream cuts into blocks *)
(* where it likes.  A byte is the character it encodes, except for the two *)
(* bytes C3 A9 that encode the character e-acute; the blocks are decoded   *)
(* one by one, as intercept() does.                                        *)
(***************************************************************************)
MaxPieces == 3

LeadByte == "C3"

ContinuationByte == "A9"

EAcute == "e-acute"

\* U+FFFD, which decode(errors="replace") writes for bytes that decode to
\* nothing.
Replacement == "U+FFFD"

\* raw_bytes.decode("utf-8", errors="replace")
RECURSIVE decode(_)
decode(raw_bytes) ==
    IF raw_bytes = <<>> THEN <<>>
    ELSE IF Head(raw_bytes) = LeadByte
    THEN IF Len(raw_bytes) >= 2 /\ raw_bytes[2] = ContinuationByte
         THEN <<EAcute>> \o decode(SubSeq(raw_bytes, 3, Len(raw_bytes)))
         ELSE <<Replacement>> \o decode(Tail(raw_bytes))
    ELSE IF Head(raw_bytes) = ContinuationByte
    THEN <<Replacement>> \o decode(Tail(raw_bytes))
    ELSE <<Head(raw_bytes)>> \o decode(Tail(raw_bytes))

\* intercept(): the body of the loop after the yield, for one block
InterceptBlock(provider, st, raw_bytes) == ParseBlock(provider, st, decode(raw_bytes))

\* What streams are made of: lines with a document, a line whose payload is
\* not JSON and holds a two-byte character, a blank line, an SSE field that
\* is not data, a data line without payload, a line ended by CR LF, and a
\* line that lacks its newline.
PieceMenu ==
    { Line(<<"{", "t", "}">>),
      Line(<<"7">>),
      DataPrefix \o <<" ", LeadByte, ContinuationByte, "\n">>,
      <<"\n">>,
      <<"i", "d", ":", "1", "\n">>,
      DataPrefix \o <<" ", "\n">>,
      <<"{", "t", "}", "\r", "\n">>,
      <<"{", "t", "}">> }

StreamsOfPieces == {Flatten(pieces) : pieces \in UNION {[1..n -> PieceMenu] : n \in 1..MaxPieces}}

LineProviders == {"openai", "ollama"}

LinesInit ==
    /\ rows = {}
    /\ committed = {}
    /\ tasks = [t \in Tasks |-> [pc |-> "idle", given |-> NoInteraction, ia |-> NoInteraction]]
    /\ HandlerIdle
    /\ front = NoRequest
    /\ \E provider \in LineProviders, stream \in StreamsOfPieces :
          calc = [pc |-> "streaming", provider |-> provider, stream |-> stream, pos |-> 0,
                  st |-> NewInterceptor, cut_in_character |-> FALSE]

\* The upstream sends the next block, of any length, and intercept() runs
\* from its read to its next read.
ReceiveBlock ==
    /\ calc.pc = "streaming"
    /\ calc.pos < Len(calc.stream)
    /\ \E n \in 1..(Len(calc.stream) - calc.pos) :
          LET raw_bytes == SubSeq(calc.stream, calc.pos + 1, calc.pos + n)
              st == InterceptBlock(calc.provider,
                                   [calc.st EXCEPT !.first_chunk_time =
                                       IF @ = NULL THEN "noted" ELSE @],
                                   raw_bytes)
          IN calc' = [calc EXCEPT
                !.st = st, !.pos = calc.pos + n,
                !.cut_in_character = @ \/ raw_bytes[n] = LeadByte,
                !.pc = IF st.raised THEN "raised" ELSE "streaming"]
    /\ UNCHANGED <<svars, hvars, front>>

\* The upstream ends the body.
EndOfStream ==
    /\ calc.pc = "streaming"
    /\ calc.pos = Len(calc.stream)
    /\ calc' = [calc EXCEPT !.pc = "ended"]
    /\ UNCHANGED <<svars, hvars, front>>

LinesNext ==
    \/ ReceiveBlock
    \/ EndOfStream

SpecLines == LinesInit /\ [][LinesNext]_vars

\* The complete lines of a text: what stands before each newline.
RECURSIVE CompleteLines(_)
CompleteLines(text) ==
    IF ~HasNewline(text) THEN <<>>
    ELSE <<SubSeq(text, 1, FirstNewline(text) - 1)>>
         \o CompleteLines(SubSeq(text, FirstNewline(text) + 1, Len(text)))

\* A line that is to give a chunk: not blank and, in SSE mode, a data: line
\* with a payload that is not blank.
GivesChunk(provider, line) ==
    /\ Strip(line) # <<>>
    /\ provider # "ollama" =>
          /\ StartsWith(Strip(line), DataPrefix)
          /\ Strip(SubSeq(Strip(line), Len(DataPrefix) + 1, Len(Strip(line)))) # <<>>

RECURSIVE ChunkLines(_, _)
ChunkLines(provider, lines) ==
    IF lines = <<>> THEN <<>>
    ELSE (IF GivesChunk(provider, Head(lines)) THEN <<Strip(Head(lines))>> ELSE <<>>)
         \o ChunkLines(provider, Tail(lines))

\* The lines of the bytes received so far that are to give a chunk.
ExpectedLines ==
    ChunkLines(calc.provider, CompleteLines(decode(SubSeq(calc.stream, 1, calc.pos))))

\* One chunk per expected line, in the order of the stream (with the text of
\* the line, where no block ended inside a character).
OneChunkPerLine ==
    /\ Len(calc.st.chunks) = Len(ExpectedLines)
    /\ IndexedFromZero(calc.st.chunks)
    /\ ~calc.cut_in_character =>
          \A i \in DOMAIN calc.st.chunks : calc.st.chunks[i].data = ExpectedLines[i]

\* C34: after each block the buffer holds no newline, and when the stream
\* has ended there is exactly one chunk, in stream order, per complete
\* non-empty line (SSE: per data: line with a payload; NDJSON: per line);
\* the text after the last newline gives no chunk.
LineExtraction ==
    /\ ~HasNewline(calc.st.buffer)
    /\ calc.pc \in {"ended", "raised"} => OneChunkPerLine

\* The same for the streams on none of whose lines the provider's parser
\* raises.
LineExtractionUnraised ==
    ~calc.st.raised =>
        /\ ~HasNewline(calc.st.buffer)
        /\ calc.pc = "ended" => OneChunkPerLine

(***************************************************************************)
(* Tool calls in an Anthropic stream.  The events are chunks as the        *)
(* reassembly above reads them; the parsed input of a tool call is the     *)
(* text tagged "json", the raw string the text tagged "str".               *)
(***************************************************************************)
MaxEvents == 5

ToolStart(id, name) ==
    [PlainChunk EXCEPT !.type = "content_block_start", !.block = "tool_use",
                       !.block_id = id, !.block_name = name]

InputJsonDelta(partial_json) ==
    [PlainChunk EXCEPT !.type = "content_block_delta", !.delta = "input_json_delta",
                       !.text = partial_json]

\* Two tool blocks, a text block, the two halves of the document {}, a text
\* delta, the end of a block, and a message_delta whose usage is null, on
\* which reconstruct_response raises.
ToolEvents ==
    { ToolStart("t1", "f"),
      ToolStart("t2", "g"),
      [PlainChunk EXCEPT !.type = "content_block_start", !.block = "text"],
      InputJsonDelta(<<"{">>),
      InputJsonDelta(<<"}">>),
      [PlainChunk EXCEPT !.type = "content_block_delta", !.delta = "text_delta",
                         !.text = <<"h">>, !.delta_text = <<"h">>],
      [PlainChunk EXCEPT !.type = "content_block_stop"],
      [PlainChunk EXCEPT !.type = "message_delta", !.null_member = TRUE] }

EventSequences == UNION {[1..n -> ToolEvents] : n \in 0..MaxEvents}

ToolCallsInit ==
    /\ rows = {}
    /\ committed = {}
    /\ tasks = [t \in Tasks |-> [pc |-> "idle", given |-> NoInteraction, ia |-> NoInteraction]]
    /\ HandlerIdle
    /\ front = NoRequest
    /\ \E events \in EventSequences :
          calc = [pc |-> "streamed", events |-> events,
                  result |-> Reassembled(NoParts, NoTokens)]

\* stream_body(), finally: reconstructed = parser.reconstruct_response(chunks)
ReconstructToolCalls ==
    /\ calc.pc = "streamed"
    /\ LET result == Reconstructed("anthropic", calc.events)
       IN calc' = [calc EXCEPT !.result = result,
                               !.pc = IF result.raised THEN "raised" ELSE "returned"]
    /\ UNCHANGED <<svars, hvars, front>>

ToolCallsNext == ReconstructToolCalls

SpecToolCalls == ToolCallsInit /\ [][ToolCallsNext]_vars

IsToolStart(event) == event.type = "content_block_start" /\ event.block = "tool_use"

IsBlockStop(event) == event.type = "content_block_stop"

\* The events after event i at which the tool block started by i is over:
\* the end of a block, or the start of another tool block.
EndsAfter(events, i) ==
    {j \in (i + 1)..Len(events) : IsBlockStop(events[j]) \/ IsToolStart(events[j])}

Min(S) == CHOOSE x \in S : \A y \in S : x <= y

\* Tool block i is followed by its content_block_stop.
Stopped(events, i) ==
    /\ IsToolStart(events[i])
    /\ EndsAfter(events, i) # {}
    /\ IsBlockStop(events[Min(EndsAfter(events, i))])

\* The partial_json deltas between event i and event j, concatenated.
RECURSIVE PartialJsonBetween(_, _, _)
PartialJsonBetween(events, i, j) ==
    IF i + 1 >= j THEN <<>>
    ELSE (IF events[i + 1].type = "content_block_delta"
             /\ events[i + 1].delta = "input_json_delta"
          THEN events[i + 1].text ELSE <<>>)
         \o PartialJsonBetween(events, i + 1, j)

\* The parsed JSON of a text, or the text when it is not JSON.
ParsedOrRaw(raw_json) ==
    IF json_loads(raw_json).kind # "fail" THEN <<"json">> \o raw_json
    ELSE <<"str">> \o raw_json

\* The tool calls of the blocks started from event i on.
RECURSIVE ToolCallsFrom(_, _)
ToolCallsFrom(events, i) ==
    IF i > Len(events) THEN <<>>
    ELSE (IF Stopped(events, i)
          THEN <<[index |-> 0, id |-> events[i].block_id, name |-> events[i].block_name,
                  arguments |-> ParsedOrRaw(PartialJsonBetween(events, i,
                                                Min(EndsAfter(events, i))))]>>
          ELSE <<>>)
         \o ToolCallsFrom(events, i + 1)

\* C35: the tool calls reconstruct_response returns for an Anthropic stream
\* are, in stream order, one for each content_block_start of type tool_use
\* that is followed by a content_block_stop, with the id and the name of the
\* block and, as input, the parsed JSON of the partial_json deltas between
\* the two events concatenated, or that string itself when it is not JSON.
ToolCallsReassembled ==
    calc.pc = "returned" => calc.result.tool_calls = ToolCallsFrom(calc.events, 1)

\* A tool call was returned whose input is the parsed JSON of two deltas
\* with a text delta between them.
ToolInputParsedFromDeltas ==
    /\ calc.pc = "returned"
    /\ Len(calc.events) = 5
    /\ calc.events[3].delta = "text_delta"
    /\ Len(calc.result.tool_calls) = 1
    /\ calc.result.tool_calls[1].arguments = <<"json", "{", "}">>
    /\ calc.result.tool_calls[1].id = "t2"
    /\ calc.result.tool_calls[1].name = "g"

(***************************************************************************)
(* The threading fields of the stored interactions.                        *)
(***************************************************************************)
TurnTypes == {"initial", "continuation", "tool_result", "handoff"}

\* C36: every stored interaction has a conversation_id, a turn_number >= 1
\* and a turn_type among initial, continuation, tool_result and handoff, and
\* turn_number = 1, no parent_interaction_id and turn_type = initial hold
\* together or not at all.
ThreadingFieldsSet ==
    \A r \in rows :
        /\ r.conversation_id # NULL
        /\ r.turn_number >= 1
        /\ r.turn_type \in TurnTypes
        /\ (r.turn_number = 1) = (r.parent_interaction_id = 0)
        /\ (r.turn_number = 1) = (r.turn_type = "initial")

\* An initial turn and a turn linked to it are stored, one with a minted
\* conversation_id.
InitialAndLinkedStored ==
    \E r, p \in rows :
        /\ p.turn_type = "initial" /\ p.turn_number = 1 /\ p.parent_interaction_id = 0
        /\ r.parent_interaction_id = p.id /\ r.turn_number = 2
        /\ r.turn_type = "tool_result"
        /\ r.conversation_id \notin ExplicitConvIds

\* The stored turns of a conversation.
TurnsOf(conversation_id) == {r \in rows : r.conversation_id = conversation_id}

\* C37: no two stored interactions of one conversation have the same
\* turn_number: the turn numbers of a conversation with n turns are 1..n.
TurnNumbersDistinct ==
    \A r \in rows :
        {q.turn_number : q \in TurnsOf(r.conversation_id)}
            = 1..Cardinality(TurnsOf(r.conversation_id))

\* The turns of a conversation that have the same parent have the same
\* turn_number, and there are such turns.
SiblingTurnsStored ==
    \E r, q \in rows :
        /\ r.id # q.id
        /\ r.conversation_id = q.conversation_id
        /\ r.parent_interaction_id = q.parent_interaction_id
        /\ r.parent_interaction_id # 0
        /\ r.turn_number = q.turn_number

\* The stored interaction that r is linked to.
ParentsOf(r) == {p \in rows : p.id = r.parent_interaction_id}

\* r was saved under rule 3: it came with neither a session ID nor an
\* explicit conversation ID.
SavedByGlobalRule(r) ==
    /\ r.session_id = NULL
    /\ \E t \in Tasks : tasks[t].given.id = r.id /\ tasks[t].given.conversation_id = NULL

\* C38 as stated: a stored interaction linked to a parent whose session_id
\* differs from its own (one of the two may be null) has turn_type handoff;
\* continuation and tool_result only link interactions of the same session.
CrossSessionLinkIsHandoff ==
    \A r \in rows : \A p \in ParentsOf(r) :
        p.session_id # r.session_id => r.turn_type = "handoff"

\* C38: a stored interaction that came with a session ID or an explicit
\* conversation ID and is linked to a parent whose session_id differs from
\* its own (one of the two may be null) has turn_type handoff; continuation
\* and tool_result link interactions of the same session, or an interaction
\* that came with neither (rule 3) to a parent of any session.
CrossSessionLinkIsHandoffUnlessGlobal ==
    \A r \in rows : \A p \in ParentsOf(r) :
        /\ (p.session_id # r.session_id /\ ~SavedByGlobalRule(r)) => r.turn_type = "handoff"
        /\ r.turn_type \in {"continuation", "tool_result"}
              => (p.session_id = r.session_id \/ SavedByGlobalRule(r))

\* A turn without session ID was linked as a handoff into the conversation
\* of a turn that has one, and stored.
HandoffFromSessionStored ==
    \E r \in rows : \E p \in ParentsOf(r) :
        /\ p.session_id = "s1" /\ r.session_id = NULL
        /\ r.turn_type = "handoff"
        /\ ~SavedByGlobalRule(r)

\* The chunks recorded when the whole stream arrives as one block.
ChunksOfOneBlock == InterceptBlock(calc.provider, NewInterceptor, calc.stream).chunks

\* C39: however the upstream splits the stream into blocks, the interceptor
\* records the same sequence of chunks (line text, parsed object and text
\* delta at the same index): the one it records for the stream in one block.
ChunksIndependentOfBlocks ==
    calc.pc \in {"ended", "raised"} => calc.st.chunks = ChunksOfOneBlock

\* The same for the splits that end no block inside a character.
ChunksIndependentOfCharacterBlocks ==
    (calc.pc \in {"ended", "raised"} /\ ~calc.cut_in_character)
        => calc.st.chunks = ChunksOfOneBlock

====
